---- MODULE Spec2Model ----
(***************************************************************************)
(* A model of the article extractor (src/html_parser.py) and of the batch  *)
(* driver (src/scraper.py).                                                *)
(*                                                                         *)
(* A document is a sequence of element nodes in document order (preorder); *)
(* each node carries its tag, its depth in the tree, its attribute map and *)
(* the number of words of text directly under it.  Every word of visible   *)
(* text is WordLen characters long, so a text of n words, collapsed by     *)
(* clean_text, is n * (WordLen + 1) - 1 characters long.                   *)
(*                                                                         *)
(* Fractions are kept exact: a link density is a pair num/den, a score is  *)
(* an integer number of hundredths, a confidence an integer number of      *)
(* 1/150000.  Python computes them in binary floating point; the model     *)
(* computes them over the rationals.                                       *)
(***************************************************************************)
EXTENDS Integers, Sequences, FiniteSets, TLC

(***************************************************************************)
(* Strings: str.lower(), substring containment, join.                      *)
(***************************************************************************)
UpperToLower ==
    [c \in {"A","B","C","D","E","F","G","H","I","J","K","L","M","N","O","P","Q",
            "R","S","T","U","V","W","X","Y","Z"} |->
        CASE c = "A" -> "a" [] c = "B" -> "b" [] c = "C" -> "c" [] c = "D" -> "d"
          [] c = "E" -> "e" [] c = "F" -> "f" [] c = "G" -> "g" [] c = "H" -> "h"
          [] c = "I" -> "i" [] c = "J" -> "j" [] c = "K" -> "k" [] c = "L" -> "l"
          [] c = "M" -> "m" [] c = "N" -> "n" [] c = "O" -> "o" [] c = "P" -> "p"
          [] c = "Q" -> "q" [] c = "R" -> "r" [] c = "S" -> "s" [] c = "T" -> "t"
          [] c = "U" -> "u" [] c = "V" -> "v" [] c = "W" -> "w" [] c = "X" -> "x"
          [] c = "Y" -> "y" [] c = "Z" -> "z"]

RECURSIVE Lower(_)
Lower(s) ==
    IF Len(s) = 0 THEN ""
    ELSE LET c == SubSeq(s, 1, 1)
             lc == IF c \in DOMAIN UpperToLower THEN UpperToLower[c] ELSE c
         IN  lc \o Lower(SubSeq(s, 2, Len(s)))

\* Python's `k in s` on strings
Contains(s, k) ==
    \E i \in 1..(Len(s) - Len(k) + 1) : SubSeq(s, i, i + Len(k) - 1) = k

\* Python's " ".join(parts)
RECURSIVE JoinSpace(_)
JoinSpace(parts) ==
    IF Len(parts) = 0 THEN ""
    ELSE IF Len(parts) = 1 THEN parts[1]
    ELSE parts[1] \o " " \o JoinSpace(Tail(parts))

\* the members of S within lo..hi, in ascending order (by halves, to keep the
\* evaluation shallow)
RECURSIVE Ascending(_, _, _)
Ascending(S, lo, hi) ==
    IF lo > hi THEN <<>>
    ELSE IF lo = hi THEN (IF lo \in S THEN <<lo>> ELSE <<>>)
    ELSE Ascending(S, lo, (lo + hi) \div 2) \o Ascending(S, (lo + hi) \div 2 + 1, hi)

\* the sum of a sequence of numbers
RECURSIVE SumRange(_, _, _)
SumRange(xs, lo, hi) ==
    IF lo > hi THEN 0
    ELSE IF lo = hi THEN xs[lo]
    ELSE SumRange(xs, lo, (lo + hi) \div 2) + SumRange(xs, (lo + hi) \div 2 + 1, hi)

SumSeq(xs) == SumRange(xs, 1, Len(xs))

\* the concatenation of a sequence of sequences
RECURSIVE FlattenRange(_, _, _)
FlattenRange(lists, lo, hi) ==
    IF lo > hi THEN <<>>
    ELSE IF lo = hi THEN lists[lo]
    ELSE FlattenRange(lists, lo, (lo + hi) \div 2)
           \o FlattenRange(lists, (lo + hi) \div 2 + 1, hi)

Flatten(lists) == FlattenRange(lists, 1, Len(lists))

(***************************************************************************)
(* HTMLParser.NOISE_KEYWORDS and HTMLParser.ARTICLE_HINTS                  *)
(***************************************************************************)
NOISE_KEYWORDS ==
    << "nav", "menu", "footer", "header", "subscribe", "metered", "paywall",
       "share", "social", "toolbar", "breadcrumbs", "breadcrumb", "cookie",
       "banner", "popup", "modal", "adv", "advert", "ads", "sponsor",
       "related", "recommend", "newsletter", "comment", "comments", "form-",
       "promo", "utility", "widget", "sidebar", "login", "signup", "consent",
       "gdpr", "tracking", "notification", "overlay", "player-controls",
       "gallery", "carousel", "slider", "tags", "taglist", "pagination" >>

ARTICLE_HINTS ==
    << "article", "story", "content", "body", "post", "entry", "main",
       "text", "read", "news", "detail" >>

NoiseTags == {"nav", "header", "footer", "aside"}

NoiseRoles == {"navigation", "banner", "complementary", "contentinfo", "search"}

\* the attributes _should_skip_element reads, in the order it reads them
SkipAttrs ==
    << "class", "id", "name", "aria-label", "data-track-label",
       "data-component", "data-testid" >>

(***************************************************************************)
(* Element nodes.  attrs is a function from the names of the attributes    *)
(* the element has to their values; the value of "class" is a list of      *)
(* strings (bs4 splits multi-valued attributes), every other value is a    *)
(* string.                                                                 *)
(***************************************************************************)
HasAttr(e, a) == a \in DOMAIN e.attrs

\* attr_map.get(a) for a single-valued attribute; "" stands for None
GetAttr(e, a) == IF HasAttr(e, a) THEN e.attrs[a] ELSE ""

\* element.get('class', [])
GetClass(e) == IF HasAttr(e, "class") THEN e.attrs["class"] ELSE <<>>

\* What is left of a Tag once decompose() has cleared it: its __dict__ is
\* empty, so .name and .attrs resolve through Tag.__getattr__ to find(),
\* which finds nothing.
Decomposed == [tag |-> "", depth |-> 0, attrs |-> <<>>, words |-> 0, text |-> ""]

\* the lower-cased attribute values the removal predicate collects
AttrBag(e) ==
    LET RECURSIVE LowerAll(_)
        LowerAll(vs) ==
            IF Len(vs) = 0 THEN <<>>
            ELSE IF vs[1] = "" THEN LowerAll(Tail(vs))
            ELSE <<Lower(vs[1])>> \o LowerAll(Tail(vs))
        RECURSIVE Collect(_)
        Collect(i) ==
            IF i > Len(SkipAttrs) THEN <<>>
            ELSE LET a == SkipAttrs[i]
                 IN  IF ~HasAttr(e, a) THEN Collect(i + 1)
                     ELSE IF a = "class" THEN LowerAll(e.attrs[a]) \o Collect(i + 1)
                     ELSE IF e.attrs[a] = "" THEN Collect(i + 1)
                     ELSE <<Lower(e.attrs[a])>> \o Collect(i + 1)
    IN  Collect(1)

HasNoiseKeyword(attrs) ==
    \E k \in 1..Len(NOISE_KEYWORDS) : Contains(attrs, NOISE_KEYWORDS[k])

HasArticleHint(attrs) ==
    \E k \in 1..Len(ARTICLE_HINTS) : Contains(attrs, ARTICLE_HINTS[k])

\* a plausible slip: the noise keywords are tested alone, the hint is not
ShouldSkipNoHint(e) ==
    \/ e.tag \in NoiseTags
    \/ Lower(GetAttr(e, "role")) \in NoiseRoles
    \/ /\ AttrBag(e) # <<>>
       /\ HasNoiseKeyword(JoinSpace(AttrBag(e)))

\* a plausible slip: the article hint is looked for first and overrides the
\* tag and role rules as well
ShouldSkipHintFirst(e) ==
    IF AttrBag(e) # <<>> /\ HasArticleHint(JoinSpace(AttrBag(e))) THEN FALSE
    ELSE \/ e.tag \in NoiseTags
         \/ Lower(GetAttr(e, "role")) \in NoiseRoles
         \/ /\ AttrBag(e) # <<>>
            /\ HasNoiseKeyword(JoinSpace(AttrBag(e)))

\* HTMLParser._should_skip_element
ShouldSkipElement(e) ==
    IF e.tag \in NoiseTags THEN TRUE
    ELSE IF Lower(GetAttr(e, "role")) \in NoiseRoles THEN TRUE
    ELSE LET attributes == AttrBag(e)
         IN  IF attributes # <<>>
             THEN LET attrs == JoinSpace(attributes)
                  IN  IF HasNoiseKeyword(attrs)
                      THEN (IF HasArticleHint(attrs) THEN FALSE ELSE TRUE)
                      ELSE FALSE
             ELSE FALSE

(***************************************************************************)
(* Text.  A literal string is split and collapsed as Python does; a text   *)
(* whose content does not matter is a sequence of runs [n, len]: n words   *)
(* of len characters each, single-spaced.                                  *)
(***************************************************************************)
WordLen == 5

\* str.split(sep) for a one-character separator
RECURSIVE Split(_, _)
Split(s, sep) ==
    LET RECURSIVE Cut(_)
        Cut(i) == IF i > Len(s) THEN 0
                  ELSE IF SubSeq(s, i, i) = sep THEN i ELSE Cut(i + 1)
        at == Cut(1)
    IN  IF at = 0 THEN <<s>>
        ELSE <<SubSeq(s, 1, at - 1)>> \o Split(SubSeq(s, at + 1, Len(s)), sep)

\* str.strip() (the only whitespace of the model's strings is the space)
RECURSIVE Strip(_)
Strip(s) ==
    IF Len(s) = 0 THEN s
    ELSE IF SubSeq(s, 1, 1) = " " THEN Strip(SubSeq(s, 2, Len(s)))
    ELSE IF SubSeq(s, Len(s), Len(s)) = " " THEN Strip(SubSeq(s, 1, Len(s) - 1))
    ELSE s

\* the sub-sequence of the non-empty strings
RECURSIVE NonEmpty(_)
NonEmpty(parts) ==
    IF Len(parts) = 0 THEN <<>>
    ELSE IF parts[1] = "" THEN NonEmpty(Tail(parts))
    ELSE <<parts[1]>> \o NonEmpty(Tail(parts))

\* str.split() with no argument
SplitWords(s) == NonEmpty(Split(s, " "))

\* utils.clean_text
clean_text(s) == IF s = "" THEN "" ELSE JoinSpace(SplitWords(s))

\* the runs of a literal string: one run per word
StringRuns(s) ==
    LET ws == SplitWords(s)
    IN  [k \in 1..Len(ws) |-> [n |-> 1, len |-> Len(ws[k])]]

RunWords(runs) == SumSeq([k \in 1..Len(runs) |-> runs[k].n])

RunLetters(runs) == SumSeq([k \in 1..Len(runs) |-> runs[k].n * runs[k].len])

\* len(text) of the collapsed text
RunChars(runs) ==
    IF RunWords(runs) = 0 THEN 0 ELSE RunLetters(runs) + RunWords(runs) - 1

Min(a, b) == IF a <= b THEN a ELSE b

Max(a, b) == IF a >= b THEN a ELSE b

\* the number of words (whole or cut) in the first `limit` characters
RECURSIVE WordsBefore(_, _, _)
WordsBefore(runs, offset, limit) ==
    IF Len(runs) = 0 \/ offset >= limit THEN 0
    ELSE LET r == runs[1]
             step == r.len + 1
             fit == (limit - offset + step - 1) \div step
             k == Min(r.n, fit)
         IN  k + WordsBefore(Tail(runs), offset + r.n * step, limit)

\* whether character number `pos` (from 1) of the collapsed text is a space
RECURSIVE SpaceAt(_, _, _)
SpaceAt(runs, offset, pos) ==
    IF Len(runs) = 0 THEN FALSE
    ELSE LET r == runs[1]
             step == r.len + 1
             rel == pos - offset
         IN  IF rel <= r.n * step
             THEN rel > 0 /\ rel % step = 0 /\ pos < RunChars(runs) + offset
             ELSE SpaceAt(Tail(runs), offset + r.n * step, pos)

(***************************************************************************)
(* The tree.  doc is the sequence of nodes in document order, alive the    *)
(* set of the indices still in the tree.                                   *)
(***************************************************************************)
Subtree(doc, i) ==
    {i} \cup {j \in (i + 1)..Len(doc) :
                \A k \in (i + 1)..j : doc[k].depth > doc[i].depth}

Descendants(doc, i) == Subtree(doc, i) \ {i}

\* the parent's index, 0 for a top-level node
Parent(doc, i) ==
    LET up == {j \in 1..(i - 1) : i \in Subtree(doc, j) /\ doc[j].depth = doc[i].depth - 1}
    IN  IF up = {} THEN 0 ELSE CHOOSE j \in up : TRUE

\* the indices of a set in document order
InOrder(doc, S) == Ascending(S, 1, Len(doc))

\* the runs of the text directly under a node
NodeRuns(node) ==
    IF node.text # "" THEN StringRuns(node.text)
    ELSE IF node.words > 0 THEN <<[n |-> node.words, len |-> WordLen]>>
    ELSE <<>>

\* element.get_text(): the text of the nodes of the subtree still in the tree
ElementRuns(doc, alive, i) ==
    LET ids == InOrder(doc, Subtree(doc, i) \cap alive)
    IN  Flatten([k \in 1..Len(ids) |-> NodeRuns(doc[ids[k]])])

\* a word of WordLen characters, and n of them
RECURSIVE Letters(_)
Letters(n) == IF n = 0 THEN "" ELSE "x" \o Letters(n - 1)

RECURSIVE FillerWords(_)
FillerWords(n) == IF n = 0 THEN <<>> ELSE <<Letters(WordLen)>> \o FillerWords(n - 1)

\* the text directly under a node, as a string
NodeString(node) ==
    IF node.text # "" THEN node.text ELSE JoinSpace(FillerWords(node.words))

\* clean_text(element.get_text()) as a string (headings, bylines, titles)
ElementString(doc, alive, i) ==
    LET ids == InOrder(doc, Subtree(doc, i) \cap alive)
    IN  clean_text(JoinSpace([k \in 1..Len(ids) |-> NodeString(doc[ids[k]])]))

(***************************************************************************)
(* The noise filter                                                        *)
(***************************************************************************)
UnrenderedTags == {"script", "style", "noscript", "iframe", "svg", "canvas"}

\* for element in soup([...]): element.decompose()
DropUnrendered(doc, alive) ==
    alive \ UNION {Subtree(doc, i) : i \in {j \in alive : doc[j].tag \in UnrenderedTags}}

\* a plausible slip: the loop runs over the live tree, so that removing an
\* element makes the iteration step over the element that follows its subtree
RemovalPassLive(doc, alive) ==
    LET Visit(i, st) ==
            IF i >= st.next /\ i \in st.left /\ ShouldSkipElement(doc[i])
            THEN LET after == CHOOSE j \in (i + 1)..(Len(doc) + 1) :
                                /\ j \notin Subtree(doc, i)
                                /\ \A k \in (i + 1)..(j - 1) : k \in Subtree(doc, i)
                 IN  [left |-> st.left \ Subtree(doc, i), next |-> after + 1]
            ELSE st
        \* the loop over lo..hi, by halves
        RECURSIVE Loop(_, _, _)
        Loop(lo, hi, st) ==
            IF lo > hi THEN st
            ELSE IF lo = hi THEN Visit(lo, st)
            ELSE LET first == Loop(lo, (lo + hi) \div 2, st)
                 IN  IF first.next > hi THEN first
                     ELSE Loop((lo + hi) \div 2 + 1, hi, first)
    IN  Loop(1, Len(doc), [left |-> alive, next |-> 1]).left

\* for element in soup.find_all(True): if self._should_skip_element(element):
\* element.decompose().  The list is taken before the loop; an element that a
\* removed ancestor took with it is still in the list, decomposed.
RemovalPass(doc, alive) ==
    LET Visit(i, left) ==
            IF i \notin alive THEN left
            ELSE LET element == IF i \in left THEN doc[i] ELSE Decomposed
                 IN  IF ShouldSkipElement(element) THEN left \ Subtree(doc, i) ELSE left
        \* the loop over lo..hi, by halves; once nothing is left, nothing changes
        RECURSIVE Loop(_, _, _)
        Loop(lo, hi, left) ==
            IF lo > hi THEN left
            ELSE IF lo = hi THEN Visit(lo, left)
            ELSE LET first == Loop(lo, (lo + hi) \div 2, left)
                 IN  IF first = {} THEN {} ELSE Loop((lo + hi) \div 2 + 1, hi, first)
    IN  Loop(1, Len(doc), alive)

\* HTMLParser._prepare_content_soup: the indices of the nodes of the cleaned tree
prepare_content_soup(doc) == RemovalPass(doc, DropUnrendered(doc, 1..Len(doc)))

(***************************************************************************)
(* Candidate blocks                                                        *)
(***************************************************************************)
StructuralTags == {"article", "main", "section", "div"}

MinBlockWords == 40

PreviewLen == 280

MaxBlocks == 10

\* round-half-even of num/den, den > 0, num >= 0
RoundDiv(num, den) ==
    LET q == num \div den
        r == num % den
    IN  IF 2 * r > den THEN q + 1
        ELSE IF 2 * r < den THEN q
        ELSE IF q % 2 = 0 THEN q ELSE q + 1

\* a plausible slip: the penalty is not floored, 1.0 - link_density
score_block_unclamped(word_count, link_density, paragraph_count, heading) ==
    LET heading_bonus4 == IF heading THEN 5 ELSE 4
        paragraph_bonus10 == 10 + Min(paragraph_count, 5)
        link_penalty == 10 * link_density.den - 10 * link_density.num
    IN  [num |-> word_count * heading_bonus4 * paragraph_bonus10 * link_penalty,
         den |-> 400 * link_density.den]

\* HTMLParser._score_block: the score as a fraction num/den;
\* link_density is a fraction [num, den], heading whether the heading text is non-empty
score_block(word_count, link_density, paragraph_count, heading) ==
    LET heading_bonus4 == IF heading THEN 5 ELSE 4
        paragraph_bonus10 == 10 + Min(paragraph_count, 5)
        link_penalty == 10 * link_density.den
                          - Min(10 * link_density.num, 9 * link_density.den)
    IN  [num |-> word_count * heading_bonus4 * paragraph_bonus10 * link_penalty,
         den |-> 400 * link_density.den]

\* an element's same-tag position among the children of its parent
SiblingIndex(doc, alive, i) ==
    LET parent == Parent(doc, i)
    IN  IF parent = 0 THEN 0
        ELSE Cardinality({j \in alive : /\ j < i
                                        /\ Parent(doc, j) = parent
                                        /\ doc[j].tag = doc[i].tag})

\* HTMLParser._compute_dom_path
compute_dom_path(doc, alive, i) ==
    LET Descriptor(c) ==
            LET identifier == GetAttr(doc[c], "id")
                class_attr == GetClass(doc[c])
                cls == IF Len(class_attr) = 0 THEN ""
                       ELSE IF Len(class_attr) = 1 THEN class_attr[1]
                       ELSE class_attr[1] \o "." \o class_attr[2]
            IN  doc[c].tag
                  \o (IF identifier # "" THEN "#" \o identifier
                      ELSE IF cls # "" THEN "." \o cls ELSE "")
                  \o "[" \o ToString(SiblingIndex(doc, alive, c)) \o "]"
        RECURSIVE Up(_, _)
        Up(current, depth) ==
            IF depth >= 5 THEN ""
            ELSE IF current = 0 THEN "[document][0]"
            ELSE LET rest == Up(Parent(doc, current), depth + 1)
                 IN  Descriptor(current) \o (IF rest = "" THEN "" ELSE " > " \o rest)
    IN  Up(i, 0)

NoBlock == [id |-> "none"]

\* the text of a paragraph or heading element: its node and its runs
TextOf(doc, alive, i) == [node |-> i, runs |-> ElementRuns(doc, alive, i)]

\* a plausible slip: the ellipsis is counted within the 280 characters
text_preview_within(text) ==
    LET cut == RunChars(text) > PreviewLen
    IN  [chars |-> IF cut THEN PreviewLen ELSE RunChars(text),
         words |-> IF cut
                   THEN WordsBefore(text, 0, PreviewLen - 3)
                          + (IF SpaceAt(text, 0, PreviewLen - 3) THEN 1 ELSE 0)
                   ELSE RunWords(text)]

\* text[:280] + ('...' if len(text) > 280 else ''): its characters and its
\* words (the ellipsis is a word of its own when the cut falls on a space)
text_preview(text) ==
    LET cut == RunChars(text) > PreviewLen
    IN  [chars |-> Min(RunChars(text), PreviewLen) + (IF cut THEN 3 ELSE 0),
         words |-> IF cut
                   THEN WordsBefore(text, 0, PreviewLen)
                          + (IF SpaceAt(text, 0, PreviewLen) THEN 1 ELSE 0)
                   ELSE RunWords(text)]

\* HTMLParser._build_block_info; id is the block's identifier
build_block_info(doc, alive, i, id) ==
    LET text == ElementRuns(doc, alive, i)
        own == InOrder(doc, Subtree(doc, i) \cap alive)
        word_count == RunWords(text)
        inside == Descendants(doc, i) \cap alive
        anchors == InOrder(doc, {j \in inside : doc[j].tag = "a"})
        \* len(" ".join(a.get_text(" ", strip=True) for a in links))
        link_text_length ==
            SumSeq([k \in 1..Len(anchors) |-> RunChars(ElementRuns(doc, alive, anchors[k]))])
              + Max(Len(anchors) - 1, 0)
        link_density == [num |-> link_text_length, den |-> Max(RunChars(text), 1)]
        ps == InOrder(doc, {j \in inside : /\ doc[j].tag = "p"
                                           /\ RunWords(ElementRuns(doc, alive, j)) > 0})
        paragraphs == [k \in 1..Len(ps) |-> TextOf(doc, alive, ps[k])]
        hs == InOrder(doc, {j \in inside : doc[j].tag \in {"h1", "h2", "h3"}})
        heading_text == IF Len(hs) = 0 THEN "" ELSE ElementString(doc, alive, hs[1])
        score == score_block(word_count, link_density, Len(paragraphs),
                             heading_text # "")
    IN  IF word_count < MinBlockWords THEN NoBlock
        ELSE [id |-> id,
              tag |-> doc[i].tag,
              classes |-> GetClass(doc[i]),
              dom_path |-> compute_dom_path(doc, alive, i),
              heading |-> heading_text,
              paragraphs |-> paragraphs,
              html |-> [k \in 1..Len(own) |-> doc[own[k]]],
              text_preview |-> text_preview(text),
              word_count |-> word_count,
              link_density |-> RoundDiv(1000 * link_density.num, link_density.den),
              score |-> RoundDiv(score.num, score.den \div 100)]

\* list.sort(key=score, reverse=True): a stable sort, highest score first
RECURSIVE SortByScore(_)
SortByScore(blocks) ==
    IF Len(blocks) <= 1 THEN blocks
    ELSE LET sorted == SortByScore(SubSeq(blocks, 1, Len(blocks) - 1))
             last == blocks[Len(blocks)]
             before == Cardinality({k \in 1..Len(sorted) : sorted[k].score >= last.score})
         IN  SubSeq(sorted, 1, before) \o <<last>> \o SubSeq(sorted, before + 1, Len(sorted))

\* the elements _extract_content_blocks enumerates, in document order
StructuralElements(doc, alive) ==
    InOrder(doc, {j \in alive : doc[j].tag \in StructuralTags})

\* the elements of the cleaned tree that the defensive check inside
\* _extract_content_blocks skips
DefensiveSkips(doc, alive) ==
    {j \in alive : doc[j].tag \in StructuralTags /\ ShouldSkipElement(doc[j])}

\* HTMLParser._extract_content_blocks
extract_content_blocks(doc, alive) ==
    LET elements == StructuralElements(doc, alive)
        \* what the loop body makes of element number k: a block or nothing
        built == [k \in 1..Len(elements) |->
                    IF ShouldSkipElement(doc[elements[k]]) THEN NoBlock
                    ELSE build_block_info(doc, alive, elements[k],
                                          "block_" \o ToString(k - 1))]
        appended == Ascending({k \in 1..Len(built) : built[k] # NoBlock}, 1, Len(built))
        candidates == SortByScore([k \in 1..Len(appended) |-> built[appended[k]]])
    IN  SubSeq(candidates, 1, Min(Len(candidates), MaxBlocks))

(***************************************************************************)
(* The schema strategy                                                     *)
(***************************************************************************)
\* the elements of the cleaned tree that selector number idx (from 0) matches
SelectorMatches(doc, alive, idx) ==
    {j \in alive :
        CASE idx = 0 -> HasAttr(doc[j], "itemprop") /\ doc[j].attrs["itemprop"] = "articleBody"
          [] idx = 1 -> HasAttr(doc[j], "itemtype") /\ Contains(doc[j].attrs["itemtype"], "Article")
          [] idx = 2 -> doc[j].tag = "article"
          [] idx = 3 -> HasAttr(doc[j], "role") /\ doc[j].attrs["role"] = "main"
          [] idx = 4 -> \E c \in 1..Len(GetClass(doc[j])) : GetClass(doc[j])[c] = "article-body"
          [] idx = 5 -> \E c \in 1..Len(GetClass(doc[j])) : GetClass(doc[j])[c] = "story__content"
          [] idx = 6 -> \E c \in 1..Len(GetClass(doc[j])) : GetClass(doc[j])[c] = "article__content"}

\* HTMLParser._extract_schema_block
extract_schema_block(doc, alive) ==
    LET RECURSIVE Probe(_)
        Probe(idx) ==
            IF idx > 6 THEN NoBlock
            ELSE LET found == SelectorMatches(doc, alive, idx)
                     element == IF found = {} THEN 0
                                ELSE CHOOSE j \in found : \A k \in found : j <= k
                 IN  IF element # 0 /\ ~ShouldSkipElement(doc[element])
                     THEN LET block == build_block_info(doc, alive, element,
                                                        "schema_" \o ToString(idx))
                          IN  IF block # NoBlock THEN block ELSE Probe(idx + 1)
                     ELSE Probe(idx + 1)
    IN  Probe(0)

\* a plausible slip: the list is ranked again after the insertion
InsertSchemaResorted(content_blocks, schema_block) ==
    IF schema_block # NoBlock THEN SortByScore(<<schema_block>> \o content_blocks)
    ELSE content_blocks

\* a plausible slip: the list is cut to ten blocks again after the insertion
InsertSchemaTruncated(blocks, schema_block) ==
    IF schema_block # NoBlock
    THEN SubSeq(<<schema_block>> \o blocks, 1, Min(Len(blocks) + 1, MaxBlocks))
    ELSE blocks

\* parse_html: if schema_block: content_blocks.insert(0, schema_block)
InsertSchema(content_blocks, schema_block) ==
    IF schema_block # NoBlock THEN <<schema_block>> \o content_blocks
    ELSE content_blocks

(***************************************************************************)
(* The Readability strategy.  The summarizer is a library: what it does on *)
(* a page is an input, rd = [fails, title, short_title, summary], where    *)
(* fails says which of its calls raises ("" for none) and summary is the   *)
(* fragment it returns, a sequence of nodes.                               *)
(***************************************************************************)
NoContent == [source |-> "empty"]

Raised == [source |-> "raised"]

\* HTMLParser._estimate_reading_time, in hundredths of a minute
estimate_reading_time(word_count) ==
    IF word_count <= 0 THEN 0 ELSE Max(RoundDiv(100 * word_count, 200), 10)

\* "\n\n".join(paragraphs).strip(): its words and its characters
JoinParagraphs(paragraphs) ==
    [words |-> SumSeq([k \in 1..Len(paragraphs) |-> RunWords(paragraphs[k].runs)]),
     chars |-> IF Len(paragraphs) = 0 THEN 0
               ELSE SumSeq([k \in 1..Len(paragraphs) |-> RunChars(paragraphs[k].runs)])
                      + 2 * (Len(paragraphs) - 1)]

\* a plausible slip: no try/except around the summarizer
extract_main_content_unguarded(rd) ==
    LET all == 1..Len(rd.summary)
        ps == InOrder(rd.summary,
                      {j \in all : /\ rd.summary[j].tag \in {"p", "li"}
                                   /\ RunWords(ElementRuns(rd.summary, all, j)) > 0})
        paragraphs == [k \in 1..Len(ps) |-> TextOf(rd.summary, all, ps[k])]
        text == JoinParagraphs(paragraphs)
    IN  IF rd.fails # "" THEN Raised
        ELSE IF text.words = 0 THEN NoContent
        ELSE [source |-> "readability",
              title |-> clean_text(rd.title),
              short_title |-> clean_text(rd.short_title),
              summary_html |-> rd.summary,
              text |-> text,
              paragraphs |-> paragraphs,
              word_count |-> text.words,
              reading_time_minutes |-> estimate_reading_time(text.words),
              confidence |-> Min(142500, 90000 + 100 * text.words)]

\* HTMLParser._extract_main_content
extract_main_content(rd) ==
    LET all == 1..Len(rd.summary)
        ps == InOrder(rd.summary,
                      {j \in all : /\ rd.summary[j].tag \in {"p", "li"}
                                   /\ RunWords(ElementRuns(rd.summary, all, j)) > 0})
        paragraphs == [k \in 1..Len(ps) |-> TextOf(rd.summary, all, ps[k])]
        text == JoinParagraphs(paragraphs)
    IN  IF rd.fails # "" THEN NoContent
        ELSE IF text.words = 0 THEN NoContent
        ELSE [source |-> "readability",
              title |-> clean_text(rd.title),
              short_title |-> clean_text(rd.short_title),
              summary_html |-> rd.summary,
              text |-> text,
              paragraphs |-> paragraphs,
              word_count |-> text.words,
              reading_time_minutes |-> estimate_reading_time(text.words),
              confidence |-> Min(142500, 90000 + 100 * text.words)]

(***************************************************************************)
(* The arbiter.  The result is [tier, content]: content is the dictionary  *)
(* returned, tier the return statement that returned it (1, 2 or 3).       *)
(***************************************************************************)
ReadabilityMinWords == 80

UnknownContent(fallback_title) ==
    [source |-> "unknown", title |-> fallback_title,
     text |-> [words |-> 0, chars |-> 0], paragraphs |-> <<>>, word_count |-> 0,
     reading_time_minutes |-> 0, confidence |-> 30000]

HeuristicContent(best, fallback_title) ==
    LET joined == JoinParagraphs(best.paragraphs)
        text == IF joined.chars > 0 THEN joined ELSE best.text_preview
        word_count == IF best.word_count # 0 THEN best.word_count ELSE text.words
    IN  [source |-> "heuristic",
         title |-> IF best.heading # "" THEN best.heading ELSE fallback_title,
         text |-> text,
         paragraphs |-> best.paragraphs,
         word_count |-> word_count,
         score |-> best.score,
         dom_path |-> best.dom_path,
         html |-> best.html,
         reading_time_minutes |-> estimate_reading_time(word_count),
         confidence |-> Min(127500, 60000 + Min(best.score, 67500))]

\* a plausible slip: the quality bar is tested with > instead of >=
choose_main_content_strict(readability_content, blocks, fallback_title) ==
    LET readability_words == IF readability_content # NoContent
                             THEN readability_content.word_count ELSE 0
    IN  IF readability_content # NoContent /\ readability_words > ReadabilityMinWords
        THEN [tier |-> 1, content |-> readability_content]
        ELSE IF Len(blocks) > 0
        THEN [tier |-> 2, content |-> HeuristicContent(blocks[1], fallback_title)]
        ELSE [tier |-> 3, content |-> IF readability_content # NoContent
                                      THEN readability_content
                                      ELSE UnknownContent(fallback_title)]

\* a plausible slip: the last tier ignores a short Readability output
choose_main_content_unknown(readability_content, blocks, fallback_title) ==
    LET readability_words == IF readability_content # NoContent
                             THEN readability_content.word_count ELSE 0
    IN  IF readability_content # NoContent /\ readability_words >= ReadabilityMinWords
        THEN [tier |-> 1, content |-> readability_content]
        ELSE IF Len(blocks) > 0
        THEN [tier |-> 2, content |-> HeuristicContent(blocks[1], fallback_title)]
        ELSE [tier |-> 3, content |-> UnknownContent(fallback_title)]

\* HTMLParser._choose_main_content
choose_main_content(readability_content, blocks, fallback_title) ==
    LET readability_words == IF readability_content # NoContent
                             THEN readability_content.word_count ELSE 0
    IN  IF readability_content # NoContent /\ readability_words >= ReadabilityMinWords
        THEN [tier |-> 1, content |-> readability_content]
        ELSE IF Len(blocks) > 0
        THEN [tier |-> 2, content |-> HeuristicContent(blocks[1], fallback_title)]
        ELSE [tier |-> 3, content |-> IF readability_content # NoContent
                                      THEN readability_content
                                      ELSE UnknownContent(fallback_title)]

(***************************************************************************)
(* URLs.  urljoin and urlparse().netloc for the URLs of the model:         *)
(* absolute URLs, host-relative paths ("/x") and plain relative names,     *)
(* none with "..", a query or a fragment.                                  *)
(***************************************************************************)
\* the index of the first occurrence of k in s from position `from` on, 0 if none
IndexOf(s, k, from) ==
    LET hits == {i \in from..(Len(s) - Len(k) + 1) : SubSeq(s, i, i + Len(k) - 1) = k}
    IN  IF hits = {} THEN 0 ELSE CHOOSE i \in hits : \A j \in hits : i <= j

LastIndexOf(s, k) ==
    LET hits == {i \in 1..(Len(s) - Len(k) + 1) : SubSeq(s, i, i + Len(k) - 1) = k}
    IN  IF hits = {} THEN 0 ELSE CHOOSE i \in hits : \A j \in hits : i >= j

\* where the path of an absolute URL starts (Len + 1 when it has none)
PathStart(u) ==
    LET scheme == IndexOf(u, "://", 1)
        slash == IF scheme = 0 THEN 0 ELSE IndexOf(u, "/", scheme + 3)
    IN  IF slash = 0 THEN Len(u) + 1 ELSE slash

\* urlparse(u).netloc
netloc(u) ==
    LET scheme == IndexOf(u, "://", 1)
    IN  IF scheme = 0 THEN "" ELSE SubSeq(u, scheme + 3, PathStart(u) - 1)

\* urllib.parse.urljoin
urljoin(base, ref) ==
    IF ref = "" THEN base
    ELSE IF IndexOf(ref, "://", 1) # 0 THEN ref
    ELSE IF SubSeq(ref, 1, 1) = "/" THEN SubSeq(base, 1, PathStart(base) - 1) \o ref
    ELSE LET cut == LastIndexOf(base, "/")
         IN  IF cut < PathStart(base) THEN base \o "/" \o ref
             ELSE SubSeq(base, 1, cut) \o ref

(***************************************************************************)
(* Meta tags, metadata, media, links                                       *)
(***************************************************************************)
\* the key under which _extract_meta files a <meta> tag, "" if it files none
MetaKey(node) ==
    IF GetAttr(node, "name") # "" /\ GetAttr(node, "content") # "" THEN node.attrs["name"]
    ELSE IF GetAttr(node, "property") # "" /\ GetAttr(node, "content") # ""
    THEN node.attrs["property"]
    ELSE IF GetAttr(node, "charset") # "" THEN "charset"
    ELSE ""

\* the value _extract_meta files for a <meta> tag
MetaValue(node) ==
    IF (GetAttr(node, "name") # "" \/ GetAttr(node, "property") # "")
         /\ GetAttr(node, "content") # ""
    THEN node.attrs["content"]
    ELSE GetAttr(node, "charset")

\* HTMLParser._extract_meta, over the full document: a later tag overrides
extract_meta(doc) ==
    LET tags == {j \in 1..Len(doc) : doc[j].tag = "meta" /\ MetaKey(doc[j]) # ""}
        keys == {MetaKey(doc[j]) : j \in tags}
        Last(k) == CHOOSE j \in tags :
                      /\ MetaKey(doc[j]) = k
                      /\ \A i \in tags : MetaKey(doc[i]) = k => i <= j
    IN  [k \in keys |-> MetaValue(doc[Last(k)])]

\* meta.get(k); "" stands for None
MetaGet(meta, k) == IF k \in DOMAIN meta THEN meta[k] ELSE ""

\* a or b on strings
Or2(a, b) == IF a # "" THEN a ELSE b

Or3(a, b, c) == Or2(a, Or2(b, c))

\* the first element of a set of indices, 0 if it is empty
FirstOf(S) == IF S = {} THEN 0 ELSE CHOOSE j \in S : \A k \in S : j <= k

\* [strip(x) for x in value.split(',') if strip(x)]
SplitCommaTrim(value) ==
    LET parts == Split(value, ",")
    IN  NonEmpty([k \in 1..Len(parts) |-> Strip(parts[k])])

\* HTMLParser._split_meta_values
split_meta_values(value) == IF value = "" THEN <<>> ELSE SplitCommaTrim(value)

\* list(dict.fromkeys(xs)): the first occurrence of each value, in order
Dedupe(xs) ==
    LET first == {k \in 1..Len(xs) : \A j \in 1..(k - 1) : xs[j] # xs[k]}
        order == Ascending(first, 1, Len(xs))
    IN  [k \in 1..Len(order) |-> xs[order[k]]]

HasClass(node, c) == \E k \in 1..Len(GetClass(node)) : GetClass(node)[k] = c

\* a plausible slip: the names are returned as collected, duplicates included
find_authors_raw(doc, alive, meta) ==
    LET meta_candidates == << MetaGet(meta, "author"), MetaGet(meta, "article:author"),
                              MetaGet(meta, "parsely-author") >>
        from_meta == Flatten([k \in 1..3 |-> split_meta_values(meta_candidates[k])])
    IN  from_meta

\* HTMLParser._find_authors
find_authors(doc, alive, meta) ==
    LET meta_candidates == << MetaGet(meta, "author"), MetaGet(meta, "article:author"),
                              MetaGet(meta, "parsely-author") >>
        from_meta == Flatten([k \in 1..3 |-> split_meta_values(meta_candidates[k])])
        dom_candidates ==
            InOrder(doc, {j \in alive : \/ GetAttr(doc[j], "itemprop") = "author"
                                        \/ HasClass(doc[j], "author-name")
                                        \/ HasClass(doc[j], "byline")
                                        \/ GetAttr(doc[j], "rel") = "author"})
        texts == [k \in 1..Len(dom_candidates) |-> ElementString(doc, alive, dom_candidates[k])]
        kept == Ascending({k \in 1..Len(texts) : /\ texts[k] # ""
                                                  /\ Lower(texts[k]) \notin {"di", "by"}},
                          1, Len(texts))
    IN  IF Len(from_meta) > 0 THEN Dedupe(from_meta)
        ELSE Dedupe([k \in 1..Len(kept) |-> texts[kept[k]]])

\* HTMLParser._find_subtitle ("" stands for None)
find_subtitle(doc, alive) ==
    LET byClass == FirstOf({j \in alive :
                      /\ doc[j].tag \in {"h2", "p"}
                      /\ \E c \in 1..Len(GetClass(doc[j])) :
                            Contains(Lower(GetClass(doc[j])[c]), "subtitle")})
        possible == FirstOf({j \in alive :
                      \/ Contains(GetAttr(doc[j], "data-testid"), "subtitle")
                      \/ HasClass(doc[j], "article-subtitle")
                      \/ HasClass(doc[j], "story__summary")
                      \/ HasClass(doc[j], "lead")})
    IN  IF byClass # 0 THEN ElementString(doc, alive, byClass)
        ELSE IF possible # 0 THEN ElementString(doc, alive, possible)
        ELSE ""

\* HTMLParser._find_dates
find_dates(doc, alive, meta) ==
    LET published == Or3(MetaGet(meta, "article:published_time"), MetaGet(meta, "pubdate"),
                         MetaGet(meta, "parsely-pub-date"))
        updated == Or2(MetaGet(meta, "article:modified_time"), MetaGet(meta, "last-modified"))
        time_tag == FirstOf({j \in alive : doc[j].tag = "time" /\ HasAttr(doc[j], "datetime")})
        updated_tag == FirstOf({j \in alive : /\ doc[j].tag = "time"
                                              /\ GetAttr(doc[j], "itemprop") = "dateModified"})
        FromTag(j) == Or2(GetAttr(doc[j], "datetime"), ElementString(doc, alive, j))
    IN  [published |-> IF published = "" /\ time_tag # 0 THEN FromTag(time_tag) ELSE published,
         updated |-> IF updated = "" /\ updated_tag # 0 THEN FromTag(updated_tag) ELSE updated]

\* HTMLParser._extract_article_metadata
extract_article_metadata(doc, alive, meta) ==
    [title |-> Or3(MetaGet(meta, "og:title"), MetaGet(meta, "twitter:title"), MetaGet(meta, "title")),
     subtitle |-> find_subtitle(doc, alive),
     authors |-> find_authors(doc, alive, meta),
     published_at |-> find_dates(doc, alive, meta).published,
     updated_at |-> find_dates(doc, alive, meta).updated,
     section |-> Or2(MetaGet(meta, "article:section"), MetaGet(meta, "category-label")),
     excerpt |-> Or2(MetaGet(meta, "description"), MetaGet(meta, "og:description")),
     keywords |-> split_meta_values(Or2(MetaGet(meta, "news_keywords"), MetaGet(meta, "keywords"))),
     tags |-> split_meta_values(Or2(MetaGet(meta, "article:tag"), MetaGet(meta, "parsely-tags")))]

\* main_content.get('summary_html') or main_content.get('html'): a sequence of nodes
Fragment(main_content) ==
    IF "summary_html" \in DOMAIN main_content /\ Len(main_content.summary_html) > 0
    THEN main_content.summary_html
    ELSE IF "html" \in DOMAIN main_content THEN main_content.html
    ELSE <<>>

GalleryCap == 5

VideoCap == 3

LinkCap == 40

Take(xs, n) == SubSeq(xs, 1, Min(Len(xs), n))

\* the images of a fragment that have a source, as gallery entries, uncapped
FragmentImages(fragment, base_url) ==
    LET all == 1..Len(fragment)
        imgs == InOrder(fragment, {j \in all :
                    /\ fragment[j].tag = "img"
                    /\ Or2(GetAttr(fragment[j], "src"), GetAttr(fragment[j], "data-src")) # ""})
    IN  [k \in 1..Len(imgs) |->
            [src |-> urljoin(base_url, Or2(GetAttr(fragment[imgs[k]], "src"),
                                           GetAttr(fragment[imgs[k]], "data-src"))),
             alt |-> clean_text(GetAttr(fragment[imgs[k]], "alt")),
             title |-> clean_text(GetAttr(fragment[imgs[k]], "title"))]]

\* the URL a <video> of a fragment yields, "" if none
VideoSrc(fragment, j) ==
    LET source == FirstOf({k \in Descendants(fragment, j) : fragment[k].tag = "source"})
    IN  IF source # 0 THEN GetAttr(fragment[source], "src") ELSE GetAttr(fragment[j], "src")

\* the video URLs of a fragment, uncapped
FragmentVideos(fragment, base_url) ==
    LET all == 1..Len(fragment)
        vids == InOrder(fragment, {j \in all : /\ fragment[j].tag = "video"
                                               /\ VideoSrc(fragment, j) # ""})
    IN  [k \in 1..Len(vids) |-> urljoin(base_url, VideoSrc(fragment, vids[k]))]

\* a plausible slip: the lists are returned without the final truncation
extract_article_media_uncapped(main_content, meta, base_url, doc, alive) ==
    LET hero == Or3(MetaGet(meta, "og:image"), MetaGet(meta, "twitter:image"),
                    MetaGet(meta, "image_thumb_src"))
        fragment == Fragment(main_content)
        iframe == FirstOf({j \in alive : doc[j].tag = "iframe" /\ HasAttr(doc[j], "src")})
    IN  [hero_image |-> IF hero # "" THEN urljoin(base_url, hero) ELSE "",
         gallery |-> FragmentImages(fragment, base_url),
         videos |-> FragmentVideos(fragment, base_url)
                      \o (IF iframe # 0 THEN <<urljoin(base_url, GetAttr(doc[iframe], "src"))>>
                          ELSE <<>>)]

\* HTMLParser._extract_article_media; (doc, alive) is the soup it is handed
extract_article_media(main_content, meta, base_url, doc, alive) ==
    LET hero == Or3(MetaGet(meta, "og:image"), MetaGet(meta, "twitter:image"),
                    MetaGet(meta, "image_thumb_src"))
        fragment == Fragment(main_content)
        iframe == FirstOf({j \in alive : doc[j].tag = "iframe" /\ HasAttr(doc[j], "src")})
        videos == FragmentVideos(fragment, base_url)
                    \o (IF iframe # 0 THEN <<urljoin(base_url, GetAttr(doc[iframe], "src"))>>
                        ELSE <<>>)
    IN  [hero_image |-> IF hero # "" THEN urljoin(base_url, hero) ELSE "",
         gallery |-> Take(FragmentImages(fragment, base_url), GalleryCap),
         videos |-> Take(videos, VideoCap)]

LinkOf(fragment, alive, j, base_url) ==
    LET absolute_url == urljoin(base_url, fragment[j].attrs["href"])
    IN  [text |-> ElementString(fragment, alive, j),
         href |-> absolute_url,
         is_external |-> netloc(base_url) # netloc(absolute_url),
         title |-> GetAttr(fragment[j], "title")]

\* a plausible slip: the limit is tested with > instead of >=
extract_links_late(fragment, alive, base_url, limit) ==
    LET anchors == InOrder(fragment, {j \in alive : fragment[j].tag = "a"
                                                     /\ HasAttr(fragment[j], "href")})
    IN  [k \in 1..Min(Len(anchors), limit + 1) |->
            LinkOf(fragment, alive, anchors[k], base_url)]

\* HTMLParser._extract_links: the loop breaks once `limit` links are collected
extract_links(fragment, alive, base_url, limit) ==
    LET anchors == InOrder(fragment, {j \in alive : fragment[j].tag = "a"
                                                     /\ HasAttr(fragment[j], "href")})
        Visit(k, st) ==
            IF st.broke THEN st
            ELSE LET links == Append(st.links, LinkOf(fragment, alive, anchors[k], base_url))
                 IN  [links |-> links, broke |-> Len(links) >= limit]
        \* the loop over lo..hi, by halves
        RECURSIVE Loop(_, _, _)
        Loop(lo, hi, st) ==
            IF lo > hi THEN st
            ELSE IF lo = hi THEN Visit(lo, st)
            ELSE LET first == Loop(lo, (lo + hi) \div 2, st)
                 IN  IF first.broke THEN first ELSE Loop((lo + hi) \div 2 + 1, hi, first)
    IN  Loop(1, Len(anchors), [links |-> <<>>, broke |-> FALSE]).links

\* HTMLParser._extract_links_from_main
extract_links_from_main(main_content, base_url) ==
    LET html_fragment == Fragment(main_content)
    IN  IF Len(html_fragment) = 0 THEN <<>>
        ELSE extract_links(html_fragment, 1..Len(html_fragment), base_url, LinkCap)

\* HTMLParser._extract_lists: for each list, the texts of its non-empty items
extract_lists(fragment) ==
    LET all == 1..Len(fragment)
        Items(j) ==
            LET lis == InOrder(fragment, {k \in Descendants(fragment, j) :
                                            /\ fragment[k].tag = "li"
                                            /\ RunWords(ElementRuns(fragment, all, k)) > 0})
            IN  [k \in 1..Len(lis) |-> TextOf(fragment, all, lis[k])]
        Lists(tag) ==
            LET found == InOrder(fragment, {j \in all : /\ fragment[j].tag = tag
                                                        /\ Len(Items(j)) > 0})
            IN  [k \in 1..Len(found) |-> Items(found[k])]
    IN  [ul |-> Lists("ul"), ol |-> Lists("ol")]

\* HTMLParser._extract_tables
extract_tables(fragment) ==
    LET all == 1..Len(fragment)
        tables == InOrder(fragment, {j \in all : fragment[j].tag = "table"})
        Cells(j, tags) ==
            LET cells == InOrder(fragment, {k \in Descendants(fragment, j) :
                                              fragment[k].tag \in tags})
            IN  [k \in 1..Len(cells) |-> TextOf(fragment, all, cells[k])]
        Rows(j) ==
            LET trs == InOrder(fragment, {r \in Descendants(fragment, j) :
                                            /\ fragment[r].tag = "tr"
                                            /\ Len(Cells(r, {"td", "th"})) > 0})
            IN  [k \in 1..Len(trs) |-> Cells(trs[k], {"td", "th"})]
    IN  [i \in 1..Len(tables) |->
            [id |-> i - 1, headers |-> Cells(tables[i], {"th"}), rows |-> Rows(tables[i])]]

\* HTMLParser._build_article_section, given the arbiter's choice
build_article_section(main_content, fallback_title, meta, doc, alive, base_url) ==
    LET metadata == extract_article_metadata(doc, alive, meta)
        media == extract_article_media(main_content, meta, base_url, doc, alive)
        article_links == extract_links_from_main(main_content, base_url)
        body == [text |-> main_content.text,
                 paragraphs |-> main_content.paragraphs,
                 word_count |-> main_content.word_count,
                 reading_time_minutes |-> main_content.reading_time_minutes,
                 source |-> main_content.source,
                 html |-> Fragment(main_content)]
    IN  [title |-> Or3(main_content.title, metadata.title, fallback_title),
         subtitle |-> metadata.subtitle,
         section |-> metadata.section,
         authors |-> metadata.authors,
         published_at |-> metadata.published_at,
         updated_at |-> metadata.updated_at,
         \* the meta description, else the first paragraph (kept as a text)
         excerpt |-> [meta |-> clean_text(metadata.excerpt),
                      paragraph |-> IF metadata.excerpt = "" /\ Len(body.paragraphs) > 0
                                    THEN <<body.paragraphs[1]>> ELSE <<>>],
         keywords |-> metadata.keywords,
         tags |-> metadata.tags,
         body |-> body,
         media |-> media,
         links |-> article_links,
         lists |-> extract_lists(Fragment(main_content)),
         tables |-> extract_tables(Fragment(main_content)),
         stats |-> [confidence |-> RoundDiv(main_content.confidence, 1500),
                    paragraph_count |-> Len(body.paragraphs),
                    has_media |-> media.hero_image # "" \/ Len(media.videos) > 0,
                    has_links |-> Len(article_links) > 0]]

\* HTMLParser._extract_headings
extract_headings(doc, alive) ==
    [level \in {"h1", "h2", "h3", "h4", "h5", "h6"} |->
        LET found == InOrder(doc, {j \in alive : doc[j].tag = level})
        IN  [k \in 1..Len(found) |-> ElementString(doc, alive, found[k])]]

\* HTMLParser._build_related_links
build_related_links(doc, alive, base_url, primary_links) ==
    LET seen == {primary_links[k].href : k \in 1..Len(primary_links)}
        links == extract_links(doc, alive, base_url, 60)
        kept == Ascending({k \in 1..Len(links) : /\ links[k].href \notin seen
                                                  /\ links[k].text # ""},
                          1, Len(links))
    IN  [k \in 1..Min(Len(kept), 15) |-> links[kept[k]]]

\* HTMLParser._summarize_blocks
summarize_blocks(blocks) ==
    [k \in 1..Min(Len(blocks), 5) |->
        [id |-> blocks[k].id, heading |-> blocks[k].heading,
         word_count |-> blocks[k].word_count, score |-> blocks[k].score,
         dom_path |-> blocks[k].dom_path]]

\* a plausible slip: the headings are read from the full document
build_page_context_full(doc, alive, base_url, article_section, blocks) ==
    [headings |-> extract_headings(doc, 1..Len(doc)),
     related_links |-> build_related_links(doc, alive, base_url, article_section.links),
     candidates |-> summarize_blocks(blocks)]

\* HTMLParser._build_page_context; (doc, alive) is the soup it is handed
build_page_context(doc, alive, base_url, article_section, blocks) ==
    [headings |-> extract_headings(doc, alive),
     related_links |-> build_related_links(doc, alive, base_url, article_section.links),
     candidates |-> summarize_blocks(blocks)]

\* clean_text(soup.title.string) if soup.title else ""
PageTitle(doc) ==
    LET title == FirstOf({j \in 1..Len(doc) : doc[j].tag = "title"})
    IN  IF title = 0 THEN "" ELSE clean_text(NodeString(doc[title]))

(***************************************************************************)
(* scraper.main and utils.is_valid_url                                     *)
(***************************************************************************)
Digits == {"0", "1", "2", "3", "4", "5", "6", "7", "8", "9"}

AsciiLetters == DOMAIN UpperToLower \cup {UpperToLower[c] : c \in DOMAIN UpperToLower}

AllIn(s, chars) == \A k \in 1..Len(s) : SubSeq(s, k, k) \in chars

StartsWith(s, prefix) == Len(s) >= Len(prefix) /\ SubSeq(s, 1, Len(prefix)) = prefix

\* utils.is_valid_url: the regular expression, matched from the start to the end
is_valid_url(u) ==
    LET low == Lower(u)
        \* (https?:\/\/)?
        rest == IF StartsWith(low, "https://") THEN SubSeq(u, 9, Len(u))
                ELSE IF StartsWith(low, "http://") THEN SubSeq(u, 8, Len(u))
                ELSE u
        stops == {k \in 1..Len(rest) : SubSeq(rest, k, k) \in {":", "/"}}
        hostEnd == IF stops = {} THEN Len(rest) + 1 ELSE FirstOf(stops)
        host == SubSeq(rest, 1, hostEnd - 1)
        after == SubSeq(rest, hostEnd, Len(rest))
        labels == Split(host, ".")
        \* (([A-Za-z0-9-]+\.)+[A-Za-z]{2,})
        domain == /\ Len(labels) >= 2
                  /\ \A k \in 1..(Len(labels) - 1) :
                        labels[k] # "" /\ AllIn(labels[k], AsciiLetters \cup Digits \cup {"-"})
                  /\ Len(labels[Len(labels)]) >= 2
                  /\ AllIn(labels[Len(labels)], AsciiLetters)
        \* (\d{1,3}\.){3}\d{1,3}
        address == /\ Len(labels) = 4
                   /\ \A k \in 1..4 : Len(labels[k]) \in 1..3 /\ AllIn(labels[k], Digits)
        \* (\:\d+)?
        pathStops == {k \in 1..Len(after) : SubSeq(after, k, k) = "/"}
        portEnd == IF pathStops = {} THEN Len(after) + 1 ELSE FirstOf(pathStops)
        port == SubSeq(after, 1, portEnd - 1)
        path == SubSeq(after, portEnd, Len(after))
        portOk == port = "" \/ (/\ SubSeq(port, 1, 1) = ":"
                                /\ Len(port) >= 2
                                /\ AllIn(SubSeq(port, 2, Len(port)), Digits))
        \* (\/[^\s]*)?$
        pathOk == AllIn(path, {c \in {SubSeq(path, k, k) : k \in 1..Len(path)} : c # " "})
    IN  /\ domain \/ Lower(host) = "localhost" \/ address
        /\ portOk
        /\ pathOk

\* invalid_urls = [url for url in args.urls if not is_valid_url(url)]
invalid_urls(urls) ==
    LET bad == Ascending({k \in 1..Len(urls) : ~is_valid_url(urls[k])}, 1, Len(urls))
    IN  [k \in 1..Len(bad) |-> urls[bad[k]]]

\* a plausible slip: the loop is left at the first failure
next_after_failure_break(i, n) == n + 1

\* the except clause of main's loop: the failure is logged and the loop goes
\* on with the next URL; i is the index of the failed URL, n the number of URLs
next_after_failure(i, n) == i + 1

(***************************************************************************)
(* State.                                                                  *)
(*   parse_html:  html_content, url, rd are its inputs (rd: what the       *)
(*     Readability library does on the page); pc is the statement it is    *)
(*     at; the other variables are its locals and its result.              *)
(*   main():  args_urls is the command line; m_pc, idx, attempted,         *)
(*     encountered_error and exit_status are main's position and locals.   *)
(*   _score_block:  sb_in are the arguments of two calls that differ in    *)
(*     link_density only, sb_out the scores returned.                      *)
(***************************************************************************)
VARIABLES html_content, url, rd, pc, content_soup, parsed_info,
          readability_content, content_blocks, chosen, article, context,
          args_urls, m_pc, idx, attempted, encountered_error, exit_status,
          sb_in, sb_out

parseVars == << html_content, url, rd, pc, content_soup, parsed_info,
                readability_content, content_blocks, chosen, article, context >>

mainVars == << args_urls, m_pc, idx, attempted, encountered_error, exit_status >>

scoreVars == << sb_in, sb_out >>

vars == << parseVars, mainVars, scoreVars >>

(***************************************************************************)
(* parse_html, statement by statement                                      *)
(***************************************************************************)
\* soup, content_soup and parsed_info (lines 92-100)
PrepareSoup ==
    /\ pc = "start"
    /\ content_soup' = prepare_content_soup(html_content)
    /\ parsed_info' = [title |-> PageTitle(html_content), base_url |-> url,
                       domain |-> netloc(url), meta |-> extract_meta(html_content)]
    /\ pc' = "readability"
    /\ UNCHANGED << html_content, url, rd, readability_content, content_blocks,
                    chosen, article, context, mainVars, scoreVars >>

\* readability_content = self._extract_main_content(html_content); an
\* exception that leaves it leaves parse_html through `raise e`
ExtractMainContent ==
    /\ pc = "readability"
    /\ readability_content' = extract_main_content(rd)
    /\ pc' = IF readability_content' = Raised THEN "raised" ELSE "blocks"
    /\ UNCHANGED << html_content, url, rd, content_soup, parsed_info, content_blocks,
                    chosen, article, context, mainVars, scoreVars >>

\* content_blocks = self._extract_content_blocks(content_soup)
ExtractContentBlocks ==
    /\ pc = "blocks"
    /\ content_blocks' = extract_content_blocks(html_content, content_soup)
    /\ pc' = "schema"
    /\ UNCHANGED << html_content, url, rd, content_soup, parsed_info,
                    readability_content, chosen, article, context, mainVars, scoreVars >>

\* schema_block = self._extract_schema_block(content_soup) and its insertion
ExtractSchemaBlock ==
    /\ pc = "schema"
    /\ content_blocks' = InsertSchema(content_blocks,
                                      extract_schema_block(html_content, content_soup))
    /\ pc' = "article"
    /\ UNCHANGED << html_content, url, rd, content_soup, parsed_info,
                    readability_content, chosen, article, context, mainVars, scoreVars >>

\* article_section = self._build_article_section(...)
BuildArticleSection ==
    /\ pc = "article"
    /\ chosen' = choose_main_content(readability_content, content_blocks, parsed_info.title)
    /\ article' = build_article_section(chosen'.content, parsed_info.title, parsed_info.meta,
                                        html_content, content_soup, url)
    /\ pc' = "context"
    /\ UNCHANGED << html_content, url, rd, content_soup, parsed_info,
                    readability_content, content_blocks, context, mainVars, scoreVars >>

\* parsed_info.update({... 'context': self._build_page_context(content_soup, ...)})
BuildPageContext ==
    /\ pc = "context"
    /\ context' = build_page_context(html_content, content_soup, url, article, content_blocks)
    /\ pc' = "returned"
    /\ UNCHANGED << html_content, url, rd, content_soup, parsed_info,
                    readability_content, content_blocks, chosen, article, mainVars, scoreVars >>

NextParse ==
    \/ PrepareSoup
    \/ ExtractMainContent
    \/ ExtractContentBlocks
    \/ ExtractSchemaBlock
    \/ BuildArticleSection
    \/ BuildPageContext

(***************************************************************************)
(* main(): one action per statement that can leave it or fail              *)
(***************************************************************************)
\* the validation of the command line: any invalid URL ends main with status 2
ValidateUrls ==
    /\ m_pc = "start"
    /\ IF Len(invalid_urls(args_urls)) > 0
       THEN m_pc' = "returned" /\ exit_status' = 2
       ELSE m_pc' = "setup" /\ UNCHANGED exit_status
    /\ UNCHANGED << args_urls, idx, attempted, encountered_error, parseVars, scoreVars >>

\* base_output_dir.mkdir(...), which may raise, and the construction of the
\* extractor; encountered_error = False
Setup ==
    /\ m_pc = "setup"
    /\ \E raised \in BOOLEAN :
         IF raised
         THEN m_pc' = "raised" /\ UNCHANGED << idx, encountered_error >>
         ELSE m_pc' = "extract" /\ idx' = 1 /\ encountered_error' = FALSE
    /\ UNCHANGED << args_urls, attempted, exit_status, parseVars, scoreVars >>

\* data = extractor.extract(url), inside the try
Extract ==
    /\ m_pc = "extract"
    /\ idx <= Len(args_urls)
    /\ \E raised \in BOOLEAN :
         /\ attempted' = Append(attempted,
                                [url |-> args_urls[idx],
                                 outcome |-> IF raised THEN "extract_raised" ELSE "extracted"])
         /\ IF raised
            THEN /\ encountered_error' = TRUE
                 /\ idx' = next_after_failure(idx, Len(args_urls))
                 /\ m_pc' = "extract"
            ELSE /\ m_pc' = "save"
                 /\ UNCHANGED << idx, encountered_error >>
    /\ UNCHANGED << args_urls, exit_status, parseVars, scoreVars >>

\* determine_output_path(...) and save_json(...), inside the try
Save ==
    /\ m_pc = "save"
    /\ \E raised \in BOOLEAN :
         /\ attempted' = [attempted EXCEPT
                            ![Len(attempted)].outcome = IF raised THEN "save_raised" ELSE "saved"]
         /\ encountered_error' = (encountered_error \/ raised)
         /\ idx' = IF raised THEN next_after_failure(idx, Len(args_urls)) ELSE idx + 1
    /\ m_pc' = "extract"
    /\ UNCHANGED << args_urls, exit_status, parseVars, scoreVars >>

\* return 0 if not encountered_error else 1
Return ==
    /\ m_pc = "extract"
    /\ idx > Len(args_urls)
    /\ exit_status' = IF encountered_error THEN 1 ELSE 0
    /\ m_pc' = "returned"
    /\ UNCHANGED << args_urls, idx, attempted, encountered_error, parseVars, scoreVars >>

NextMain ==
    \/ ValidateUrls
    \/ Setup
    \/ Extract
    \/ Save
    \/ Return

\* the state of parse_html before its first statement, on a given input
ParseStart(doc, base_url, readability) ==
    /\ html_content = doc
    /\ url = base_url
    /\ rd = readability
    /\ pc = "start"
    /\ content_soup = {}
    /\ parsed_info = [title |-> "", base_url |-> "", domain |-> "", meta |-> <<>>]
    /\ readability_content = NoContent
    /\ content_blocks = <<>>
    /\ chosen = [tier |-> 0, content |-> NoContent]
    /\ article = <<>>
    /\ context = <<>>

NoReadability == [fails |-> "", title |-> "", short_title |-> "", summary |-> <<>>]

ParseIdle ==
    /\ html_content = <<>>
    /\ url = ""
    /\ rd = NoReadability
    /\ pc = "idle"
    /\ content_soup = {}
    /\ parsed_info = [title |-> "", base_url |-> "", domain |-> "", meta |-> <<>>]
    /\ readability_content = NoContent
    /\ content_blocks = <<>>
    /\ chosen = [tier |-> 0, content |-> NoContent]
    /\ article = <<>>
    /\ context = <<>>

MainIdle ==
    /\ args_urls = <<>>
    /\ m_pc = "idle"
    /\ idx = 0
    /\ attempted = <<>>
    /\ encountered_error = FALSE
    /\ exit_status = -1

ScoreIdle ==
    /\ sb_in = <<>>
    /\ sb_out = <<>>

(***************************************************************************)
(* Documents.  An element with filler text, an element with literal text.  *)
(***************************************************************************)
NoAttrs == <<>>

El(tag, depth, attrs, words) ==
    [tag |-> tag, depth |-> depth, attrs |-> attrs, words |-> words, text |-> ""]

Lit(tag, depth, attrs, text) ==
    [tag |-> tag, depth |-> depth, attrs |-> attrs, words |-> 0, text |-> text]

\* the tree lxml builds: <html><head>..</head><body>..</body></html>; head and
\* body are given with depths from 1
Page(head, body) ==
    LET Shift(nodes) == [k \in 1..Len(nodes) |-> [nodes[k] EXCEPT !.depth = @ + 2]]
    IN  <<El("html", 1, NoAttrs, 0), El("head", 2, NoAttrs, 0)>> \o Shift(head)
          \o <<El("body", 2, NoAttrs, 0)>> \o Shift(body)

BaseUrl == "https://example.com/news/x"

(***************************************************************************)
(* The pages of the arbitration runs: a wrapper <div> holding a "big" div  *)
(* (text and one link) and a schema-style element (a heading and one       *)
(* paragraph) that is either inside the wrapper or beside it.              *)
(***************************************************************************)
BigWords == 500

RdBigWords == 300

SchemaKinds == {"none", "article", "span-itemprop", "div-article-body"}

SchemaWords == {39, 40, 60}

BigDivWords == {0, 39, 45, BigWords}

SchemaPart(kind, depth, words) ==
    IF kind = "none" THEN <<>>
    ELSE << (CASE kind = "article" -> El("article", depth, NoAttrs, 0)
               [] kind = "span-itemprop" -> El("span", depth, "itemprop" :> "articleBody", 0)
               [] kind = "div-article-body" ->
                    El("div", depth, "class" :> <<"article-body">>, 0)),
            Lit("h2", depth + 1, NoAttrs, "Schema Heading"),
            El("p", depth + 1, NoAttrs, words - 2) >>

ArbPage(title, kind, nested, schemaWords, bigWords) ==
    Page(IF title = "" THEN <<>> ELSE <<Lit("title", 1, NoAttrs, title)>>,
         (IF nested THEN <<>> ELSE SchemaPart(kind, 1, schemaWords))
           \o << El("div", 1, NoAttrs, 0) >>
           \o (IF nested THEN SchemaPart(kind, 2, schemaWords) ELSE <<>>)
           \o (IF bigWords = 0 THEN <<>>
               ELSE << El("div", 2, NoAttrs, bigWords - 1),
                       El("a", 3, "href" :> "/more", 1) >>))

ArbPages ==
    {ArbPage(title, kind, nested, sw, bw) :
        title \in {"", "Page Title"}, kind \in SchemaKinds, nested \in BOOLEAN,
        sw \in SchemaWords, bw \in BigDivWords}

\* what Readability returns: the <p> and <li> of its summary, by word count
RdParagraphs ==
    { <<>>, <<0>>, <<1>>, <<79>>, <<40, 39>>, <<80>>, <<40, 40>>, <<RdBigWords>> }

RdSummary(words) ==
    <<El("div", 1, NoAttrs, 0)>> \o [k \in 1..Len(words) |-> El("p", 2, NoAttrs, words[k])]

RdOutcomes ==
    {[fails |-> "", title |-> "Readable Title", short_title |-> "Readable",
      summary |-> RdSummary(ws)] : ws \in RdParagraphs}
    \cup {[fails |-> f, title |-> "", short_title |-> "", summary |-> <<>>] :
            f \in {"summary", "title"}}

(***************************************************************************)
(* The pages of the noise-filter runs: three elements, nested or side by   *)
(* side, each with 45 words of its own and one of the shapes below.        *)
(***************************************************************************)
NoiseShapes ==
    { [tag |-> "div", attrs |-> "class" :> <<"sidebar", "article-body">>],
      [tag |-> "div", attrs |-> "class" :> <<"sidebar">>],
      [tag |-> "nav", attrs |-> "class" :> <<"article-body">>],
      [tag |-> "div", attrs |-> ("role" :> "Navigation") @@ ("class" :> <<"article-body">>)],
      [tag |-> "div", attrs |-> "id" :> "Main-Menu"],
      [tag |-> "div", attrs |-> "data-testid" :> "cookie-banner"],
      [tag |-> "section", attrs |-> "aria-label" :> "Related stories"],
      [tag |-> "section", attrs |-> ("class" :> <<"Comments">>) @@ ("name" :> "article")],
      [tag |-> "article", attrs |-> NoAttrs],
      [tag |-> "script", attrs |-> NoAttrs] }

\* the depths of the three elements
NoiseLayouts == { <<1, 2, 3>>, <<1, 2, 2>>, <<1, 1, 2>>, <<1, 1, 1>> }

NoisePage(shapes, layout) ==
    Page(<<>>, [k \in 1..3 |-> El(shapes[k].tag, layout[k], shapes[k].attrs, 45)])

NoisePages ==
    {NoisePage(<<a, b, c>>, layout) :
        a \in NoiseShapes, b \in NoiseShapes, c \in NoiseShapes, layout \in NoiseLayouts}

InitNoise ==
    /\ \E doc \in NoisePages : ParseStart(doc, BaseUrl, NoReadability)
    /\ MainIdle
    /\ ScoreIdle

SpecNoise == InitNoise /\ [][NextParse]_vars

Init ==
    /\ \E doc \in ArbPages, r \in RdOutcomes : ParseStart(doc, BaseUrl, r)
    /\ MainIdle
    /\ ScoreIdle

Next == NextParse

Spec == Init /\ [][Next]_vars

(***************************************************************************)
(* The pages of the media runs: an <article> holding one paragraph, images,*)
(* videos and anchors, and optionally an <iframe> beside it.  Readability  *)
(* either raises, which leaves the article to the heuristic tier, or       *)
(* returns the same content as its summary.                                *)
(***************************************************************************)
MaxImages == 7

MaxVideos == 5

MaxAnchors == 42

\* n images; image number `missing` has no source
Images(n, missing) ==
    [k \in 1..n |->
        IF k = missing THEN El("img", 2, "alt" :> "no source", 0)
        ELSE IF k % 2 = 0
        THEN El("img", 2, "data-src" :> ("/img/" \o ToString(k) \o ".png"), 0)
        ELSE El("img", 2, ("src" :> ("/img/" \o ToString(k) \o ".png"))
                            @@ ("alt" :> " image  text "), 0)]

\* n videos: odd ones carry a <source>, even ones their own src; video number
\* `missing` has a <source> without src beside its own src
Videos(n, missing) ==
    Flatten([k \in 1..n |->
        IF k = missing
        THEN << El("video", 2, "src" :> ("/v/" \o ToString(k) \o ".mp4"), 0),
                El("source", 3, "type" :> "video/mp4", 0) >>
        ELSE IF k % 2 = 1
        THEN << El("video", 2, NoAttrs, 0),
                El("source", 3, "src" :> ("/v/" \o ToString(k) \o ".mp4"), 0) >>
        ELSE << El("video", 2, "src" :> ("https://cdn.example.org/v/" \o ToString(k)), 0) >>])

\* n anchors of one word each; anchor number `missing` has no href
Anchors(n, missing) ==
    [k \in 1..n |->
        IF k = missing THEN El("a", 2, "name" :> "top", 1)
        ELSE El("a", 2, "href" :> ("/l/" \o ToString(k)), 1)]

MediaContent(ni, mi, nv, mv, na, ma) ==
    << El("article", 1, NoAttrs, 0), El("p", 2, NoAttrs, 90) >>
      \o Images(ni, mi) \o Videos(nv, mv) \o Anchors(na, ma)

MediaCases ==
    {[content |-> MediaContent(ni, IF miss THEN 2 ELSE 0, nv, IF miss THEN 1 ELSE 0,
                               na, IF miss THEN 3 ELSE 0),
      iframe |-> m.iframe, via |-> m.via] :
        ni \in {0, 5, 6, MaxImages}, nv \in {0, 3, MaxVideos},
        na \in {0, 40, MaxAnchors}, miss \in BOOLEAN,
        m \in {[iframe |-> FALSE, via |-> "heuristic"],
               [iframe |-> TRUE, via |-> "heuristic"],
               [iframe |-> TRUE, via |-> "readability"]}}

MediaPage(c) ==
    Page(<<>>, c.content \o (IF c.iframe
                             THEN <<El("iframe", 1, "src" :> "https://videos.example.org/embed/1", 0)>>
                             ELSE <<>>))

MediaReadability(c) ==
    IF c.via = "readability"
    THEN [fails |-> "", title |-> "Readable Title", short_title |-> "Readable",
          summary |-> c.content]
    ELSE [fails |-> "summary", title |-> "", short_title |-> "", summary |-> <<>>]

MediaRuns == {[doc |-> MediaPage(c), rd |-> MediaReadability(c)] : c \in MediaCases}

InitMedia ==
    /\ \E run \in MediaRuns : ParseStart(run.doc, BaseUrl, run.rd)
    /\ MainIdle
    /\ ScoreIdle

SpecMedia == InitMedia /\ [][NextParse]_vars

(***************************************************************************)
(* The pages of the author runs: the three author meta tags, present or    *)
(* not, and byline elements in the body.                                   *)
(***************************************************************************)
AuthorMetas == {"", "Jane Doe, Jane Doe, John Smith", " Ann Lee ,, Jane Doe ", "Ann Lee"}

ArticleAuthorMetas == {"", "John Smith", "Jane Doe,Bob Ray"}

ParselyAuthorMetas == {"", "Ann Lee", " , "}

BylineTexts ==
    { <<>>, <<"By">>, <<"Jane Doe", "Jane Doe">>,
      <<"di", "Eve Fox", "BY", "Eve  Fox", "Max Orr">> }

MetaTag(key, attr, content) ==
    IF content = "" THEN <<>>
    ELSE <<El("meta", 1, (attr :> key) @@ ("content" :> content), 0)>>

\* the k-th byline is marked up in one of the four ways the selectors look for
Byline(k, text) ==
    CASE k % 4 = 1 -> Lit("span", 2, "class" :> <<"byline">>, text)
      [] k % 4 = 2 -> Lit("a", 2, ("rel" :> "author") @@ ("href" :> "/staff"), text)
      [] k % 4 = 3 -> Lit("span", 2, "itemprop" :> "author", text)
      [] k % 4 = 0 -> Lit("div", 2, "class" :> <<"author-name">>, text)

AuthorPage(author, articleAuthor, parsely, bylines) ==
    Page(MetaTag("author", "name", author)
           \o MetaTag("article:author", "property", articleAuthor)
           \o MetaTag("parsely-author", "name", parsely),
         << El("article", 1, NoAttrs, 0), El("p", 2, NoAttrs, 50) >>
           \o [k \in 1..Len(bylines) |-> Byline(k, bylines[k])])

AuthorPages ==
    {AuthorPage(a, b, c, d) : a \in AuthorMetas, b \in ArticleAuthorMetas,
                              c \in ParselyAuthorMetas, d \in BylineTexts}

InitAuthors ==
    /\ \E doc \in AuthorPages : ParseStart(doc, BaseUrl, NoReadability)
    /\ MainIdle
    /\ ScoreIdle

SpecAuthors == InitAuthors /\ [][NextParse]_vars

(***************************************************************************)
(* The command lines of the batch runs                                     *)
(***************************************************************************)
MaxUrls == 3

UrlPool ==
    { "https://example.com/a", "example.org", "localhost:8080/x", "HTTP://10.0.0.1",
      "not a url", "ftp://files.example.com" }

RECURSIVE UrlLists(_)
UrlLists(n) ==
    IF n = 0 THEN {<<>>}
    ELSE UrlLists(n - 1) \cup {Append(l, u) : l \in {x \in UrlLists(n - 1) : Len(x) = n - 1},
                                              u \in UrlPool}

InitBatch ==
    /\ ParseIdle
    /\ ScoreIdle
    /\ args_urls \in UrlLists(MaxUrls) \ {<<>>}
    /\ m_pc = "start"
    /\ idx = 0
    /\ attempted = <<>>
    /\ encountered_error = FALSE
    /\ exit_status = -1

SpecBatch == InitBatch /\ [][NextMain]_vars

(***************************************************************************)
(* _score_block, called twice with link densities d1 and d2                *)
(***************************************************************************)
MaxScoreWords == 500

MaxParagraphs == 6

DensitySteps == 20

\* k/DensitySteps up to a little over 1, and sevenths
Densities ==
    {[num |-> k, den |-> DensitySteps] : k \in 0..(DensitySteps + 2)}
      \cup {[num |-> k, den |-> 7] : k \in 0..8}

InitScore ==
    /\ ParseIdle
    /\ MainIdle
    /\ sb_in \in [word_count : {0, 40, 41, MaxScoreWords},
                  paragraph_count : 0..MaxParagraphs,
                  heading : BOOLEAN,
                  d1 : Densities, d2 : Densities]
    /\ sb_out = <<>>

ScoreBlocks ==
    /\ sb_out = <<>>
    /\ sb_in # <<>>
    /\ sb_out' = << score_block(sb_in.word_count, sb_in.d1, sb_in.paragraph_count, sb_in.heading),
                    score_block(sb_in.word_count, sb_in.d2, sb_in.paragraph_count, sb_in.heading) >>
    /\ UNCHANGED << sb_in, parseVars, mainVars >>

NextScore == ScoreBlocks

SpecScore == InitScore /\ [][NextScore]_vars

(***************************************************************************)
(* Arbitration: what the runs are checked against                          *)
(***************************************************************************)
\* parse_html has chosen the main content
Chosen == pc \in {"context", "returned"}

\* the word count of the Readability output, 0 when it is empty
RdWords == IF readability_content = NoContent THEN 0 ELSE readability_content.word_count

\* every article/main/section/div of the document has fewer than 40 words
AllStructuralShort ==
    \A j \in 1..Len(html_content) :
        html_content[j].tag \in {"article", "main", "section", "div"}
            => RunWords(ElementRuns(html_content, 1..Len(html_content), j)) < 40

\* C1: a non-empty Readability output of 80 words or more is the main content
\* returned, whatever the candidate list holds; with 79 words or fewer the
\* first tier does not return it.
C1_ReadabilityWins ==
    Chosen =>
        /\ (readability_content # NoContent /\ readability_content.word_count >= 80)
              => /\ chosen.tier = 1
                 /\ chosen.content = readability_content
                 /\ chosen.content.source = "readability"
                 /\ article.body.source = "readability"
        /\ RdWords <= 79 => chosen.tier # 1

\* Readability clears the bar while the first candidate scores above 675,
\* the score at which the heuristic confidence saturates
C1_Witness ==
    /\ pc = "returned"
    /\ RdWords >= 80
    /\ Len(content_blocks) > 0
    /\ content_blocks[1].score > 67500
    /\ chosen.content.source = "readability"

\* C2 as stated: short structural elements leave the candidate list empty, and
\* an empty candidate list with a Readability output under 80 words (empty or
\* not) yields the unknown content with empty text and confidence 0.2.
C2_Original ==
    Chosen =>
        /\ AllStructuralShort => content_blocks = <<>>
        /\ (content_blocks = <<>> /\ RdWords < 80)
              => /\ chosen.content.source = "unknown"
                 /\ chosen.content.text.chars = 0
                 /\ chosen.content.confidence = 30000

\* C2 as amended: short structural elements leave the list returned by
\* _extract_content_blocks empty; an empty candidate list with an empty
\* Readability output yields the unknown content with empty text and confidence
\* 0.2; an empty candidate list with a Readability output of 1..79 words yields
\* that output (source readability, confidence 0.6 + word_count / 1500).
C2_EmptyListFallsThrough ==
    /\ (pc = "schema" /\ AllStructuralShort) => content_blocks = <<>>
    /\ (Chosen /\ content_blocks = <<>> /\ readability_content = NoContent)
          => /\ chosen.tier = 3
             /\ chosen.content.source = "unknown"
             /\ chosen.content.text.chars = 0
             /\ chosen.content.confidence = 30000
             /\ article.stats.confidence = 20
    /\ (Chosen /\ content_blocks = <<>> /\ RdWords \in 1..79)
          => /\ chosen.tier = 3
             /\ chosen.content = readability_content
             /\ chosen.content.source = "readability"
             /\ chosen.content.confidence = 90000 + 100 * RdWords

C2_Witness ==
    /\ pc = "returned"
    /\ AllStructuralShort
    /\ content_blocks = <<>>
    /\ RdWords \in 1..79
    /\ article.body.source = "readability"

\* the block the schema strategy returns on the cleaned tree
SchemaBlock == extract_schema_block(html_content, content_soup)

\* C3: with a Readability output under 80 words and a schema block, the list
\* handed on is the schema block followed by the ranked candidates, unsorted,
\* and the heuristic main content is derived from the schema block.
C3_SchemaFirst ==
    (pc \in {"article", "context", "returned"} /\ SchemaBlock # NoBlock)
        => /\ content_blocks[1] = SchemaBlock
           /\ Tail(content_blocks) = extract_content_blocks(html_content, content_soup)
           /\ (Chosen /\ RdWords < 80)
                 => /\ chosen.tier = 2
                    /\ chosen.content.source = "heuristic"
                    /\ chosen.content.title = SchemaBlock.heading
                    /\ chosen.content.paragraphs = SchemaBlock.paragraphs
                    /\ chosen.content.word_count = SchemaBlock.word_count
                    /\ chosen.content.score = SchemaBlock.score
                    /\ chosen.content.dom_path = SchemaBlock.dom_path
                    /\ chosen.content.html = SchemaBlock.html
                    /\ article.body.html = SchemaBlock.html

\* the schema block leads the list although a later candidate outscores it
C3_Witness ==
    /\ pc = "returned"
    /\ RdWords < 80
    /\ SchemaBlock # NoBlock
    /\ \E k \in 2..Len(content_blocks) : content_blocks[k].score > SchemaBlock.score
    /\ chosen.content.dom_path = SchemaBlock.dom_path

\* the summarizer raises, or its summary has no paragraph text
RdGivesNothing ==
    \/ rd.fails # ""
    \/ \A j \in 1..Len(rd.summary) :
          rd.summary[j].tag \in {"p", "li"}
              => RunWords(ElementRuns(rd.summary, 1..Len(rd.summary), j)) = 0

ArticleKeys ==
    {"title", "subtitle", "section", "authors", "published_at", "updated_at", "excerpt",
     "keywords", "tags", "body", "media", "links", "lists", "tables", "stats"}

\* C4: when the summarizer raises or yields no paragraph text, parse_html does
\* not raise: the Readability output is empty, and the record returned is
\* complete, from the heuristic or the unknown tier.
C4_ReadabilityFailureContained ==
    RdGivesNothing =>
        /\ pc # "raised"
        /\ pc \notin {"start", "readability"} => readability_content = NoContent
        /\ Chosen => /\ chosen.tier \in {2, 3}
                     /\ chosen.content.source \in {"heuristic", "unknown"}
        /\ pc = "returned"
              => /\ DOMAIN article = ArticleKeys
                 /\ article.body.source = chosen.content.source
                 /\ DOMAIN context = {"headings", "related_links", "candidates"}

C4_Witness ==
    /\ pc = "returned"
    /\ rd.fails = "title"
    /\ article.body.source = "heuristic"

(***************************************************************************)
(* The noise filter: what the runs are checked against                     *)
(***************************************************************************)
\* the cleaned tree exists
Filtered == pc \notin {"idle", "start"}

\* C6: the removal pass applied to the cleaned tree removes nothing, and the
\* check at the head of the loop of _extract_content_blocks skips no element of
\* the cleaned tree.
C6_FilterIdempotent ==
    Filtered =>
        /\ DropUnrendered(html_content, content_soup) = content_soup
        /\ RemovalPass(html_content, content_soup) = content_soup
        /\ DefensiveSkips(html_content, content_soup) = {}

\* something was removed, and a structural element that carries a noise
\* keyword is still in the tree when the candidates are enumerated
C6_Witness ==
    /\ pc = "schema"
    /\ content_soup # 1..Len(html_content)
    /\ \E j \in content_soup :
          /\ html_content[j].tag \in StructuralTags
          /\ HasNoiseKeyword(JoinSpace(AttrBag(html_content[j])))

\* the element's tag and role are not noise, and its attributes hold both a
\* noise keyword and an article hint
NoiseAndHint(e) ==
    /\ e.tag \notin {"nav", "header", "footer", "aside"}
    /\ Lower(GetAttr(e, "role")) \notin
          {"navigation", "banner", "complementary", "contentinfo", "search"}
    /\ HasNoiseKeyword(JoinSpace(AttrBag(e)))
    /\ HasArticleHint(JoinSpace(AttrBag(e)))

\* C7: an element whose tag and role are not noise and whose attributes hold
\* both a noise keyword and an article hint is not marked for removal; the
\* filter removes it only together with an ancestor.
C7_HintOverride ==
    \A j \in 1..Len(html_content) :
        NoiseAndHint(html_content[j])
            => /\ ~ShouldSkipElement(html_content[j])
               /\ (Filtered /\ j \notin content_soup)
                     => \E a \in 1..(j - 1) : j \in Subtree(html_content, a)
                                              /\ a \notin content_soup

\* class "sidebar article-body" is in the cleaned tree
C7_Witness ==
    /\ pc = "returned"
    /\ \E j \in content_soup :
          GetClass(html_content[j]) = <<"sidebar", "article-body">>

(***************************************************************************)
(* The batch loop: what the runs are checked against                       *)
(***************************************************************************)
\* the URLs main has attempted so far, in the order of the attempts
AttemptedUrls == [k \in 1..Len(attempted) |-> attempted[k].url]

\* the attempts that failed
FailedAttempts ==
    {k \in 1..Len(attempted) : attempted[k].outcome \in {"extract_raised", "save_raised"}}

\* C5: in a batch run over valid URLs every URL is attempted exactly once, in
\* list order, whatever extraction or save failed before it, and main returns
\* 1 if at least one URL failed and 0 if none did
C5_BatchContinues ==
    /\ Len(attempted) <= Len(args_urls)
    /\ \A k \in 1..Len(attempted) : attempted[k].url = args_urls[k]
    /\ (m_pc = "returned" /\ \A k \in 1..Len(args_urls) : is_valid_url(args_urls[k]))
         => /\ AttemptedUrls = args_urls
            /\ exit_status = IF FailedAttempts = {} THEN 0 ELSE 1

\* a run of three URLs: the extraction of the first and the save of the
\* second failed, the third was saved, and main returned 1
C5_Witness ==
    /\ m_pc = "returned"
    /\ Len(args_urls) = MaxUrls
    /\ Len(attempted) = MaxUrls
    /\ attempted[1].outcome = "extract_raised"
    /\ attempted[2].outcome = "save_raised"
    /\ attempted[MaxUrls].outcome = "saved"
    /\ exit_status = 1

(***************************************************************************)
(* The media and link caps: what the runs are checked against              *)
(***************************************************************************)
\* the fragment the article was assembled from
ChosenFragment == article.body.html

\* the images of the fragment that carry a source, in document order
SourcedImages ==
    Ascending({j \in 1..Len(ChosenFragment) :
                  /\ ChosenFragment[j].tag = "img"
                  /\ \/ GetAttr(ChosenFragment[j], "src") # ""
                     \/ GetAttr(ChosenFragment[j], "data-src") # ""},
              1, Len(ChosenFragment))

\* the videos of the fragment that yield a source, in document order
VideoSources ==
    Ascending({j \in 1..Len(ChosenFragment) :
                  /\ ChosenFragment[j].tag = "video"
                  /\ VideoSrc(ChosenFragment, j) # ""},
              1, Len(ChosenFragment))

\* the anchors of the fragment that have an href, in document order
HrefAnchors ==
    Ascending({j \in 1..Len(ChosenFragment) :
                  ChosenFragment[j].tag = "a" /\ HasAttr(ChosenFragment[j], "href")},
              1, Len(ChosenFragment))

\* C8: the article has at most 5 gallery images, 3 videos and 40 links, and
\* when the chosen fragment holds more than 5 images with a source / 3 video
\* sources / 40 anchors with href, the article holds exactly the first 5 / 3 /
\* 40 of them, in document order
C8_CapsExact ==
    Chosen =>
        /\ Len(article.media.gallery) <= 5
        /\ Len(article.media.videos) <= 3
        /\ Len(article.links) <= 40
        /\ Len(SourcedImages) > 5 =>
              /\ Len(article.media.gallery) = 5
              /\ \A k \in 1..5 :
                    LET img == ChosenFragment[SourcedImages[k]]
                    IN  article.media.gallery[k].src
                          = urljoin(url, IF GetAttr(img, "src") # "" THEN img.attrs["src"]
                                         ELSE img.attrs["data-src"])
        /\ Len(VideoSources) > 3 =>
              /\ Len(article.media.videos) = 3
              /\ \A k \in 1..3 :
                    article.media.videos[k]
                      = urljoin(url, VideoSrc(ChosenFragment, VideoSources[k]))
        /\ Len(HrefAnchors) > 40 =>
              /\ Len(article.links) = 40
              /\ \A k \in 1..40 :
                    article.links[k].href
                      = urljoin(url, ChosenFragment[HrefAnchors[k]].attrs["href"])

\* a page whose fragment holds more than 5 images with a source, more than 3
\* video sources and more than 40 anchors with href has been assembled
C8_Witness ==
    /\ pc = "returned"
    /\ Len(SourcedImages) > 5
    /\ Len(VideoSources) > 3
    /\ Len(HrefAnchors) > 40
    /\ Len(article.media.gallery) = 5
    /\ Len(article.media.videos) = 3
    /\ Len(article.links) = 40

(***************************************************************************)
(* Authors: what the runs are checked against                              *)
(***************************************************************************)
\* the names the three author meta tags hold, comma-split and trimmed
MetaAuthorNames ==
    split_meta_values(MetaGet(parsed_info.meta, "author"))
      \o split_meta_values(MetaGet(parsed_info.meta, "article:author"))
      \o split_meta_values(MetaGet(parsed_info.meta, "parsely-author"))

\* the texts of the byline elements of the cleaned tree, in document order
BylineNames ==
    LET found == Ascending({j \in content_soup :
                               \/ GetAttr(html_content[j], "itemprop") = "author"
                               \/ HasClass(html_content[j], "author-name")
                               \/ HasClass(html_content[j], "byline")
                               \/ GetAttr(html_content[j], "rel") = "author"},
                           1, Len(html_content))
    IN  [k \in 1..Len(found) |-> ElementString(html_content, content_soup, found[k])]

\* names lists every value of raw once, in the order of the first occurrences
FirstSeenOrder(names, raw) ==
    /\ \A a, b \in 1..Len(names) : a # b => names[a] # names[b]
    /\ {names[k] : k \in 1..Len(names)} = {raw[k] : k \in 1..Len(raw)}
    /\ \A a, b \in 1..Len(names) :
          a < b => \E i \in 1..Len(raw) :
                      /\ raw[i] = names[a]
                      /\ \A j \in 1..i : raw[j] # names[b]

\* C9: the authors list has no duplicate and is in first-seen order; the
\* names of the meta tags author, article:author and parsely-author are
\* comma-split and trimmed; "Jane Doe, Jane Doe, John Smith" yields
\* <<"Jane Doe", "John Smith">>; the byline elements are consulted only when
\* the meta tags yield no name
C9_AuthorsDeduped ==
    Chosen =>
        /\ \A a, b \in 1..Len(article.authors) : a # b => article.authors[a] # article.authors[b]
        /\ \A k \in 1..Len(MetaAuthorNames) :
              /\ MetaAuthorNames[k] # ""
              /\ SubSeq(MetaAuthorNames[k], 1, 1) # " "
              /\ SubSeq(MetaAuthorNames[k], Len(MetaAuthorNames[k]), Len(MetaAuthorNames[k])) # " "
              /\ ~Contains(MetaAuthorNames[k], ",")
        /\ Len(MetaAuthorNames) > 0 => FirstSeenOrder(article.authors, MetaAuthorNames)
        /\ Len(MetaAuthorNames) = 0 =>
              LET kept == Ascending({k \in 1..Len(BylineNames) :
                                        /\ BylineNames[k] # ""
                                        /\ Lower(BylineNames[k]) \notin {"di", "by"}},
                                    1, Len(BylineNames))
              IN  FirstSeenOrder(article.authors, [k \in 1..Len(kept) |-> BylineNames[kept[k]]])
        /\ (/\ MetaGet(parsed_info.meta, "author") = "Jane Doe, Jane Doe, John Smith"
            /\ MetaGet(parsed_info.meta, "article:author") = ""
            /\ MetaGet(parsed_info.meta, "parsely-author") = "")
              => article.authors = <<"Jane Doe", "John Smith">>

\* the page whose meta author is "Jane Doe, Jane Doe, John Smith" and whose
\* body has bylines of other names has been assembled
C9_Witness ==
    /\ Chosen
    /\ MetaGet(parsed_info.meta, "author") = "Jane Doe, Jane Doe, John Smith"
    /\ MetaGet(parsed_info.meta, "article:author") = ""
    /\ MetaGet(parsed_info.meta, "parsely-author") = ""
    /\ \E k \in 1..Len(BylineNames) : BylineNames[k] = "Max Orr"
    /\ article.authors = <<"Jane Doe", "John Smith">>

(***************************************************************************)
(* The score: what the runs are checked against                            *)
(***************************************************************************)
\* a <= b on fractions with positive denominators
FracLeq(a, b) == a.num * b.den <= b.num * a.den

\* the score as a fraction in lower terms: the denominator without its 400
Lowered(score) == [num |-> score.num, den |-> score.den \div 400]

\* C10: with word count, paragraph count and heading fixed, the score does
\* not increase with the link density, and it is the same, 0.1 times the
\* unpenalised score, for every link density of 0.9 or more
C10_LinkDensityMonotone ==
    sb_out # <<>> =>
        /\ FracLeq(sb_in.d1, sb_in.d2) => FracLeq(Lowered(sb_out[2]), Lowered(sb_out[1]))
        /\ \A k \in 1..2 :
              LET d == IF k = 1 THEN sb_in.d1 ELSE sb_in.d2
                  unpenalised == sb_in.word_count * (IF sb_in.heading THEN 5 ELSE 4)
                                   * (10 + (IF sb_in.paragraph_count < 5
                                            THEN sb_in.paragraph_count ELSE 5))
              IN  FracLeq([num |-> 9, den |-> 10], d)
                    => 400 * sb_out[k].num = unpenalised * sb_out[k].den

\* two different link densities of 0.9 or more have been scored, for a block
\* with words
C10_Witness ==
    /\ sb_out # <<>>
    /\ sb_in.word_count > 0
    /\ FracLeq([num |-> 9, den |-> 10], sb_in.d1)
    /\ sb_in.d1.num * sb_in.d2.den < sb_in.d2.num * sb_in.d1.den
    /\ sb_out[1].num > 0

(***************************************************************************)
(* The page-level iframe: what the media runs are checked against          *)
(***************************************************************************)
\* the first <iframe> of the page that has a src attribute, 0 if none
PageIframe ==
    FirstOf({j \in 1..Len(html_content) :
                html_content[j].tag = "iframe" /\ HasAttr(html_content[j], "src")})

\* C11: when the page holds an <iframe> with a src and the chosen fragment
\* yields fewer than 3 video URLs, the article's videos are the fragment's
\* video URLs followed by the absolute URL of the first such iframe.
C11_IframeVideo ==
    (pc = "returned" /\ PageIframe # 0 /\ Len(VideoSources) < 3) =>
        article.media.videos
          = [k \in 1..Len(VideoSources) |->
                urljoin(url, VideoSrc(ChosenFragment, VideoSources[k]))]
              \o <<urljoin(url, html_content[PageIframe].attrs["src"])>>

(***************************************************************************)
(* The pages of the candidate-list runs: up to MaxDivs <div>s side by      *)
(* side, each long enough to be a candidate, and a schema-style element    *)
(* before or after them.                                                   *)
(***************************************************************************)
MaxDivs == 11

\* n <div>s of 41, 42, ... words
PlainDivs(n) == [k \in 1..n |-> El("div", 1, NoAttrs, MinBlockWords + k)]

ManyPage(n, kind, schemaFirst) ==
    Page(<<>>, IF schemaFirst THEN SchemaPart(kind, 1, 60) \o PlainDivs(n)
               ELSE PlainDivs(n) \o SchemaPart(kind, 1, 60))

ManyPages ==
    {ManyPage(n, kind, first) :
        n \in 0..MaxDivs, kind \in {"none", "article", "span-itemprop"}, first \in BOOLEAN}

ManyReadability ==
    {NoReadability,
     [fails |-> "", title |-> "Readable Title", short_title |-> "Readable",
      summary |-> RdSummary(<<79>>)]}

InitMany ==
    /\ \E doc \in ManyPages, r \in ManyReadability : ParseStart(doc, BaseUrl, r)
    /\ MainIdle
    /\ ScoreIdle

SpecMany == InitMany /\ [][NextParse]_vars

(***************************************************************************)
(* The candidate list: what the runs are checked against                   *)
(***************************************************************************)
\* parse_html has inserted the schema block, if any
Inserted == pc \in {"article", "context", "returned"}

\* the structural elements of the cleaned tree with 40 words or more
Qualifying ==
    {j \in content_soup :
        /\ html_content[j].tag \in {"article", "main", "section", "div"}
        /\ RunWords(ElementRuns(html_content, content_soup, j)) >= 40}

\* C12 as stated: the list handed to the arbiter and to the page context holds
\* at most 10 blocks, the schema block included.
C12_Original == Inserted => Len(content_blocks) <= 10

\* C12 as amended: the list returned by _extract_content_blocks holds at most
\* 10 blocks (all qualifying elements, or ten of them); the schema block is put
\* in front of that list after the truncation, so the list handed on holds one
\* block more, at most 11.
C12_AtMostEleven ==
    /\ pc = "schema" => Len(content_blocks) = Min(Cardinality(Qualifying), 10)
    /\ Inserted =>
          /\ Len(content_blocks) <= 11
          /\ content_soup # {} =>
                IF SchemaBlock # NoBlock
                THEN /\ content_blocks[1] = SchemaBlock
                     /\ Len(content_blocks) = Min(Cardinality(Qualifying), 10) + 1
                ELSE Len(content_blocks) = Min(Cardinality(Qualifying), 10)

\* eleven blocks are handed on: the schema block and ten ranked candidates
C12_Witness ==
    /\ pc = "returned"
    /\ Len(content_blocks) = 11
    /\ content_blocks[1] = SchemaBlock
    /\ Len(context.candidates) = 5

(***************************************************************************)
(* The pages of the heading runs: an <article> with its own heading and    *)
(* two more headings, each of some level and placed in some container.     *)
(***************************************************************************)
HeadingLevels == {"h1", "h2", "h3", "h6"}

HeadingPlaces == {"none", "body", "header", "aside", "related", "hinted", "share"}

HeadingPart(place, level, text) ==
    CASE place = "none" -> <<>>
      [] place = "body" -> << Lit(level, 1, NoAttrs, text) >>
      [] place = "header" ->
            << El("header", 1, NoAttrs, 0), Lit(level, 2, NoAttrs, text) >>
      [] place = "aside" ->
            << El("aside", 1, "class" :> <<"article-body">>, 0),
               Lit(level, 2, NoAttrs, text) >>
      [] place = "related" ->
            << El("div", 1, "class" :> <<"related">>, 0), Lit(level, 2, NoAttrs, text) >>
      [] place = "hinted" ->
            << El("div", 1, "class" :> <<"sidebar", "article-body">>, 0),
               Lit(level, 2, NoAttrs, text) >>
      [] place = "share" ->
            << Lit(level, 1, NoAttrs, text),
               Lit("span", 2, "class" :> <<"share">>, "Share this") >>

HeadingPage(p1, l1, p2, l2) ==
    Page(<<>>, HeadingPart(p1, l1, " Site   Name ")
                 \o << El("article", 1, NoAttrs, 0),
                       Lit("h1", 2, NoAttrs, "Story Title"),
                       El("p", 2, NoAttrs, 50) >>
                 \o HeadingPart(p2, l2, "More to read"))

HeadingPages ==
    {HeadingPage(p1, l1, p2, l2) :
        p1 \in HeadingPlaces, l1 \in HeadingLevels,
        p2 \in HeadingPlaces, l2 \in HeadingLevels}

InitHeadings ==
    /\ \E doc \in HeadingPages : ParseStart(doc, BaseUrl, NoReadability)
    /\ MainIdle
    /\ ScoreIdle

SpecHeadings == InitHeadings /\ [][NextParse]_vars

(***************************************************************************)
(* Headings: what the runs are checked against                             *)
(***************************************************************************)
AllNodes == 1..Len(html_content)

\* the nodes with no unrendered or noise element among themselves and their
\* ancestors
Surviving ==
    {j \in AllNodes :
        \A a \in 1..j :
            j \in Subtree(html_content, a)
                => /\ html_content[a].tag \notin
                        {"script", "style", "noscript", "iframe", "svg", "canvas"}
                   /\ ~ShouldSkipElement(html_content[a])}

\* the headings of a level among a set of nodes, in document order
HeadingsAmong(S, level) ==
    Ascending({j \in S : html_content[j].tag = level}, 1, Len(html_content))

\* C13 as stated: for each level, the headings of the page context are the
\* texts of all the headings of that level of the raw document, in document
\* order, those inside elements the noise filter removes included.
C13_Original ==
    pc = "returned" =>
        \A level \in {"h1", "h2", "h3", "h4", "h5", "h6"} :
            LET raw == HeadingsAmong(AllNodes, level)
            IN  context.headings[level]
                  = [k \in 1..Len(raw) |-> ElementString(html_content, AllNodes, raw[k])]

\* C13 as amended: for each level, the headings of the page context are the
\* texts of the headings of that level that survive the noise filter, in
\* document order, each text without its removed descendants; a heading inside
\* a removed element is absent.
C13_HeadingsFromFilteredTree ==
    pc = "returned" =>
        \A level \in {"h1", "h2", "h3", "h4", "h5", "h6"} :
            LET kept == HeadingsAmong(Surviving, level)
            IN  context.headings[level]
                  = [k \in 1..Len(kept) |-> ElementString(html_content, Surviving, kept[k])]

\* an h1 inside a <header> is missing from the headings, the article's h1 is there
C13_Witness ==
    /\ pc = "returned"
    /\ \E j \in AllNodes :
          /\ html_content[j].tag = "h1"
          /\ Parent(html_content, j) # 0
          /\ html_content[Parent(html_content, j)].tag = "header"
    /\ context.headings["h1"] = <<"Story Title">>

(***************************************************************************)
(* The pages of the keyword runs: a <div> whose only attribute is          *)
(* class=k, for each noise keyword k, beside, before or inside an          *)
(* <article>.                                                              *)
(***************************************************************************)
KeywordLayouts == {"before", "after", "inside"}

KeywordPage(k, layout) ==
    LET story == << El("article", 1, NoAttrs, 0), El("p", 2, NoAttrs, 50) >>
        Marked(depth) == << El("div", depth, "class" :> <<NOISE_KEYWORDS[k]>>, 45) >>
    IN  Page(<<>>, CASE layout = "before" -> Marked(1) \o story
                     [] layout = "after" -> story \o Marked(1)
                     [] layout = "inside" -> story \o Marked(2))

KeywordPages ==
    {KeywordPage(k, layout) : k \in 1..Len(NOISE_KEYWORDS), layout \in KeywordLayouts}

InitKeywords ==
    /\ \E doc \in KeywordPages : ParseStart(doc, BaseUrl, NoReadability)
    /\ MainIdle
    /\ ScoreIdle

SpecKeywords == InitKeywords /\ [][NextParse]_vars

(***************************************************************************)
(* Noise keywords: what the runs are checked against                       *)
(***************************************************************************)
\* the <div>s whose only attribute is class=k for a noise keyword k
KeywordDivs ==
    {j \in 1..Len(html_content) :
        /\ html_content[j].tag = "div"
        /\ \E k \in 1..Len(NOISE_KEYWORDS) :
              html_content[j].attrs = ("class" :> <<NOISE_KEYWORDS[k]>>)}

\* C14: a <div> with no role whose only attribute is class=k, k a noise
\* keyword, makes _should_skip_element true and is not in the cleaned tree.
C14_KeywordRemoved ==
    Filtered =>
        \A j \in KeywordDivs :
            /\ ShouldSkipElement(html_content[j])
            /\ j \notin content_soup

(***************************************************************************)
(* Tag and role rules: what the noise runs are checked against             *)
(***************************************************************************)
\* the elements the tag rule or the role rule marks, whatever their attributes
TagOrRoleNoise ==
    {j \in 1..Len(html_content) :
        \/ html_content[j].tag \in {"nav", "header", "footer", "aside"}
        \/ Lower(GetAttr(html_content[j], "role"))
             \in {"navigation", "banner", "complementary", "contentinfo", "search"}}

\* the elements with an article hint among their attributes
Hinted == {j \in 1..Len(html_content) : HasArticleHint(JoinSpace(AttrBag(html_content[j])))}

\* C15: the cleaned tree holds no nav/header/footer/aside, no element with a
\* noise role (in any letter case) and no descendant of a removed element,
\* article hints on the element or on the descendant notwithstanding.
C15_TagAndRoleRemoved ==
    Filtered =>
        /\ content_soup \cap TagOrRoleNoise = {}
        /\ \A j \in 1..Len(html_content) :
              j \notin content_soup
                  => Subtree(html_content, j) \cap content_soup = {}

\* a <nav> with class article-body and an element with role "Navigation" and
\* class article-body have been removed, and so has a hinted descendant of a
\* removed element that the predicate alone would keep
C15_Witness ==
    /\ pc = "returned"
    /\ \E j \in Hinted \ content_soup : html_content[j].tag = "nav"
    /\ \E j \in Hinted \ content_soup : GetAttr(html_content[j], "role") = "Navigation"
    /\ \E j \in Hinted \ content_soup :
          /\ ~ShouldSkipElement(html_content[j])
          /\ Parent(html_content, j) \notin content_soup

(***************************************************************************)
(* The pages of the link-density runs: a <div> with words of its own, one  *)
(* anchor with text and up to MaxEmptyAnchors image-only anchors.          *)
(***************************************************************************)
MaxEmptyAnchors == 4

\* n anchors that wrap an image and no text
ImageLinks(n) ==
    Flatten([k \in 1..n |->
        << El("a", 2, "href" :> ("/photo/" \o ToString(k)), 0),
           El("img", 3, "src" :> ("/img/" \o ToString(k) \o ".png"), 0) >>])

LinkPage(own, linked, empty) ==
    Page(<<>>, << El("div", 1, NoAttrs, own) >>
                 \o (IF linked = 0 THEN <<>>
                     ELSE << El("a", 2, "href" :> "/more", linked) >>)
                 \o ImageLinks(empty))

LinkPages ==
    {LinkPage(own, linked, empty) :
        own \in {0, 1, 39, 60}, linked \in {0, 1, 40, 45}, empty \in 0..MaxEmptyAnchors}

InitLinks ==
    /\ \E doc \in LinkPages : ParseStart(doc, BaseUrl, NoReadability)
    /\ MainIdle
    /\ ScoreIdle

SpecLinks == InitLinks /\ [][NextParse]_vars

(***************************************************************************)
(* Link density: what the runs are checked against                         *)
(***************************************************************************)
\* C16: the link_density of every candidate block lies within 0.0..1.0 (the
\* field is rounded to three decimals: 0..1000 thousandths), image-only
\* anchors included.
C16_DensityInUnitRange ==
    \A k \in 1..Len(content_blocks) :
        /\ content_blocks[k].link_density >= 0
        /\ content_blocks[k].link_density <= 1000

(***************************************************************************)
(* The preview: what the arbitration runs are checked against              *)
(***************************************************************************)
\* len(text) of the element candidate number k was built from
BlockChars(k) ==
    RunChars(ElementRuns(content_blocks[k].html, 1..Len(content_blocks[k].html), 1))

\* the heuristic tier chose a block without a non-empty <p>: the body text is
\* the block's preview
PreviewFallback ==
    /\ Chosen
    /\ chosen.tier = 2
    /\ Len(content_blocks[1].paragraphs) = 0

\* C17 as stated: the preview of every candidate is at most 280 characters
\* long, ellipsis included, and so is a heuristic body text that falls back to
\* the preview.
C17_Original ==
    /\ \A k \in 1..Len(content_blocks) : content_blocks[k].text_preview.chars <= 280
    /\ (pc = "returned" /\ PreviewFallback) => article.body.text.chars <= 280

\* C17 as amended: the preview is the whole text when the text has at most 280
\* characters, and its first 280 characters followed by a three-character
\* ellipsis, 283 characters, when it is longer; a heuristic body text that
\* falls back to the preview is that preview, at most 283 characters long.
C17_PreviewAtMost283 ==
    /\ \A k \in 1..Len(content_blocks) :
          /\ content_blocks[k].text_preview.chars
               = (IF BlockChars(k) > 280 THEN 283 ELSE BlockChars(k))
          /\ content_blocks[k].text_preview.chars <= 283
    /\ (pc = "returned" /\ PreviewFallback)
          => /\ article.body.text = content_blocks[1].text_preview
             /\ article.body.text.chars <= 283

\* a block of more than 280 characters without paragraphs was chosen: the
\* body text has 283 characters
C17_Witness ==
    /\ pc = "returned"
    /\ PreviewFallback
    /\ BlockChars(1) > 280
    /\ article.body.source = "heuristic"
    /\ article.body.text.chars = 283

(***************************************************************************)
(* The body's word count: what the arbitration runs are checked against    *)
(***************************************************************************)
\* C18: in the assembled record, body.word_count is the number of
\* whitespace-separated words of body.text, whichever tier chose the content.
C18_WordCountMatchesText ==
    pc = "returned" => article.body.word_count = article.body.text.words

============================================================================
